---- MODULE Spec2Model ----
(***************************************************************************)
(* PySheet (src/Powerform.py): the table edit engine of PySheetApp.         *)
(*                                                                         *)
(* The state is the application object's fields: the pandas DataFrame, the  *)
(* undo and redo stacks, the clipboard slot, the ids captured by the        *)
(* context menu, the Treeview (rows, selection, active column) and the      *)
(* find cursor.  Every Tk callback is one action.  Strings are sequences    *)
(* of one-character strings, so that str(), int(), `in` and str.replace     *)
(* are computed and not assumed.                                            *)
(*                                                                         *)
(* Tk runs one callback at a time; an exception raised inside a callback    *)
(* ends that callback and keeps what it had already assigned.               *)
(* Menu.post() does not grab the pointer or the keyboard: the context menu  *)
(* stays posted while key bindings (bind_all) and other widgets are served, *)
(* so a context-menu command can run against a state that changed after the *)
(* ids were captured.                                                       *)
(***************************************************************************)
EXTENDS Integers, Sequences, FiniteSets, TLC

(***************************************************************************)
(* Bounds of the model.                                                     *)
(***************************************************************************)
MaxRows == 2
MaxCols == 2
MaxSteps == 4
MaxDeepSteps == 7
MaxFillSteps == 6
MaxStructSteps == 6
MaxEditSteps == 6
MaxFindSteps == 5
MaxSearchSteps == 6
MaxWrapSteps == 7
MaxClipSteps == 6
MaxPreviewSteps == 1
MaxCount == 4
MaxStep == 3

(***************************************************************************)
(* Python values.                                                           *)
(***************************************************************************)
\* None, for an optional string (clipboard_data, file_path).
None == <<"None">>
\* A field that __init__ never assigns (context_menu_row_id, context_menu_col_id).
Unset == <<"Unset">>
\* float('nan'), the filler pandas uses when .loc[...] = v enlarges a frame.
NaN == <<"NaN">>

DigitChars == <<"0", "1", "2", "3", "4", "5", "6", "7", "8", "9">>

IsDigit(c) == \E d \in 1..10 : DigitChars[d] = c

DigitValue(c) == (CHOOSE d \in 1..10 : DigitChars[d] = c) - 1

RECURSIVE NatStr(_)
NatStr(n) ==
  IF n < 10 THEN <<DigitChars[n + 1]>>
  ELSE NatStr(n \div 10) \o <<DigitChars[(n % 10) + 1]>>

\* str(n) of a Python int.
PyStrInt(n) == IF n < 0 THEN <<"-">> \o NatStr(0 - n) ELSE NatStr(n)

RECURSIVE DigitsValue(_)
DigitsValue(s) ==
  IF s = <<>> THEN 0
  ELSE 10 * DigitsValue(SubSeq(s, 1, Len(s) - 1)) + DigitValue(s[Len(s)])

AllDigits(s) == s # <<>> /\ \A i \in 1..Len(s) : IsDigit(s[i])

\* int(s) of a Python str: an optional sign, then digits; anything else raises
\* ValueError.  The result is [ok, val].
PyInt(s) ==
  IF AllDigits(s) THEN [ok |-> TRUE, val |-> DigitsValue(s)]
  ELSE IF Len(s) >= 2 /\ s[1] \in {"-", "+"} /\ AllDigits(Tail(s))
       THEN [ok |-> TRUE,
             val |-> IF s[1] = "-" THEN 0 - DigitsValue(Tail(s))
                     ELSE DigitsValue(Tail(s))]
       ELSE [ok |-> FALSE, val |-> 0]

\* str(v) of a cell value: a str is itself, nan prints as "nan".
PyStr(v) == IF v = NaN THEN <<"n", "a", "n">> ELSE v

\* t in s
Contains(s, t) ==
  \E i \in 0..(Len(s) - Len(t)) : SubSeq(s, i + 1, i + Len(t)) = t

\* s.find(t) as a 1-based position, 0 when absent.
FindPos(s, t) ==
  IF Contains(s, t)
  THEN CHOOSE i \in 1..(Len(s) - Len(t) + 1) :
         /\ SubSeq(s, i, i + Len(t) - 1) = t
         /\ \A k \in 1..(i - 1) : SubSeq(s, k, k + Len(t) - 1) # t
  ELSE 0

\* s.replace(t, r, 1)
ReplaceFirst(s, t, r) ==
  IF t = <<>> THEN r \o s
  ELSE IF FindPos(s, t) = 0 THEN s
  ELSE LET p == FindPos(s, t)
       IN SubSeq(s, 1, p - 1) \o r \o SubSeq(s, p + Len(t), Len(s))

\* s.replace(t, r): every non-overlapping occurrence, left to right.
RECURSIVE StrReplace(_, _, _)
StrReplace(s, t, r) ==
  IF t = <<>>
  THEN IF s = <<>> THEN r ELSE r \o <<s[1]>> \o StrReplace(Tail(s), t, r)
  ELSE IF FindPos(s, t) = 0 THEN s
  ELSE LET p == FindPos(s, t)
       IN SubSeq(s, 1, p - 1) \o r
            \o StrReplace(SubSeq(s, p + Len(t), Len(s)), t, r)

(***************************************************************************)
(* Column names.                                                            *)
(***************************************************************************)
Letters == <<"A", "B", "C", "D", "E", "F", "G", "H", "I", "J", "K", "L", "M",
             "N", "O", "P", "Q", "R", "S", "T", "U", "V", "W", "X", "Y", "Z">>

RECURSIVE _to_excel_col(_)
_to_excel_col(n) ==
  IF n <= 0 THEN <<>>
  ELSE _to_excel_col((n - 1) \div 26) \o <<Letters[((n - 1) % 26) + 1]>>

\* "#k", the Treeview's display-column id.
ColId(k) == <<"#">> \o NatStr(k)

\* int(column_id.replace('#', '')) - 1, as [ok, val].
RECURSIVE DropHash(_)
DropHash(s) ==
  IF s = <<>> THEN <<>>
  ELSE IF s[1] = "#" THEN DropHash(Tail(s))
  ELSE <<s[1]>> \o DropHash(Tail(s))

ColIndexOf(column_id) ==
  LET p == PyInt(DropHash(column_id))
  IN [ok |-> p.ok, val |-> p.val - 1]

(***************************************************************************)
(* pandas.DataFrame: row labels, column labels, values by position.         *)
(***************************************************************************)
Frame(idx, cols, vals) == [index |-> idx, columns |-> cols, values |-> vals]

\* pd.DataFrame()
EmptyFrame == Frame(<<>>, <<>>, <<>>)

NRows(df) == Len(df.index)
NCols(df) == Len(df.columns)

\* DataFrame.empty: any axis of length 0.
IsEmpty(df) == NRows(df) = 0 \/ NCols(df) = 0

\* np.full((r, c), v)
Full(r, c, v) == [i \in 1..r |-> [j \in 1..c |-> v]]

\* pd.DataFrame(values): both axes get a RangeIndex.
RangeFrame(vals, c) ==
  Frame([i \in 1..Len(vals) |-> i - 1], [j \in 1..c |-> PyStrInt(j - 1)], vals)

\* Index.get_loc(label) as a 1-based position, 0 for KeyError.
PosOf(seq, label) ==
  IF \E i \in 1..Len(seq) : seq[i] = label
  THEN CHOOSE i \in 1..Len(seq) :
         seq[i] = label /\ \A k \in 1..(i - 1) : seq[k] # label
  ELSE 0

HasRow(df, label) == PosOf(df.index, label) # 0
HasCol(df, name) == PosOf(df.columns, name) # 0

\* df.loc[label, name]
LocGet(df, label, name) ==
  df.values[PosOf(df.index, label)][PosOf(df.columns, name)]

\* df.loc[label, name] = v: sets the cell, and enlarges the frame with NaN
\* cells when the row label or the column name is new.
LocSet(df, label, name, v) ==
  LET cols == IF HasCol(df, name) THEN df.columns ELSE Append(df.columns, name)
      wide == [i \in 1..NRows(df) |->
                 IF HasCol(df, name) THEN df.values[i]
                 ELSE Append(df.values[i], NaN)]
      idx == IF HasRow(df, label) THEN df.index ELSE Append(df.index, label)
      tall == IF HasRow(df, label) THEN wide
              ELSE Append(wide, [j \in 1..Len(cols) |-> NaN])
      r == PosOf(idx, label)
      c == PosOf(cols, name)
  IN Frame(idx, cols, [tall EXCEPT ![r][c] = v])

\* df.drop(label): KeyError is decided by the caller with HasRow.
DropRow(df, label) ==
  LET keep == {i \in 1..NRows(df) : df.index[i] # label}
      pick(k) == CHOOSE i \in keep : Cardinality({m \in keep : m < i}) = k - 1
  IN Frame([k \in 1..Cardinality(keep) |-> df.index[pick(k)]],
           df.columns,
           [k \in 1..Cardinality(keep) |-> df.values[pick(k)]])

RemoveAt(s, p) == SubSeq(s, 1, p - 1) \o SubSeq(s, p + 1, Len(s))
InsertAt(s, p, x) == SubSeq(s, 1, p) \o <<x>> \o SubSeq(s, p + 1, Len(s))

\* df.drop(columns=[name], inplace=True)
DropCol(df, name) ==
  LET p == PosOf(df.columns, name)
  IN Frame(df.index, RemoveAt(df.columns, p),
           [i \in 1..NRows(df) |-> RemoveAt(df.values[i], p)])

\* df.insert(pos, name, v), pos 0-based and within 0..NCols.
InsertCol(df, pos, name, v) ==
  Frame(df.index, InsertAt(df.columns, pos, name),
        [i \in 1..NRows(df) |-> InsertAt(df.values[i], pos, v)])

\* df.astype(str)
AsStr(df) ==
  Frame(df.index, df.columns,
        [i \in 1..NRows(df) |-> [j \in 1..NCols(df) |-> PyStr(df.values[i][j])]])

\* The normalization that renames the columns and keeps the row labels.
NormalizeHeadersKeepsIndex(df) ==
  IF IsEmpty(df) THEN df
  ELSE Frame(df.index, [j \in 1..NCols(df) |-> _to_excel_col(j)], df.values)

\* _normalize_headers: rows become 0..N-1, columns A, B, ...; an empty frame is
\* left as it is.
_normalize_headers(df) ==
  IF IsEmpty(df) THEN df
  ELSE Frame([i \in 1..NRows(df) |-> i - 1],
             [j \in 1..NCols(df) |-> _to_excel_col(j)],
             df.values)

(***************************************************************************)
(* ttk.Treeview: the display columns and the rows, each an item id (iid)    *)
(* with its displayed values.                                               *)
(***************************************************************************)
\* _clear_treeview
ClearedTree == [columns |-> <<>>, rows |-> <<>>]

\* _load_data_to_treeview: clear, then one item per row, iid = str(index).
_load_data_to_treeview(df) ==
  IF IsEmpty(df) THEN ClearedTree
  ELSE [columns |-> df.columns,
        rows |-> [i \in 1..NRows(df) |->
                    [iid |-> PyStrInt(df.index[i]),
                     values |-> [j \in 1..NCols(df) |-> PyStr(df.values[i][j])]]]]

\* tree.index(iid) as a 1-based position, 0 for TclError (no such item).
TreePos(t, iid) ==
  IF \E i \in 1..Len(t.rows) : t.rows[i].iid = iid
  THEN CHOOSE i \in 1..Len(t.rows) : t.rows[i].iid = iid
  ELSE 0

TreeHas(t, iid) == TreePos(t, iid) # 0

TreeIids(t) == {t.rows[i].iid : i \in 1..Len(t.rows)}

\* tree.item(iid, values=...): TclError, which _apply_change swallows, when the
\* item does not exist.
TreeSetValues(t, iid, vals) ==
  IF TreeHas(t, iid)
  THEN [t EXCEPT !.rows[TreePos(t, iid)].values = vals]
  ELSE t

(***************************************************************************)
(* The application state.                                                   *)
(***************************************************************************)
VARIABLES
  dataframe,            \* self.dataframe
  undo_stack,           \* self.undo_stack: (description, DataFrame) pairs
  redo_stack,           \* self.redo_stack
  undo_objs,            \* the DataFrame object of each undo entry (0: the live one)
  redo_objs,            \* the DataFrame object of each redo entry
  clipboard_data,       \* self.clipboard_data
  file_path,            \* self.file_path
  context_menu_row_id,  \* self.context_menu_row_id
  context_menu_col_id,  \* self.context_menu_col_id
  menu_posted,          \* the context menu is on screen
  tree,                 \* self.tree: columns and items
  selection,            \* self.tree.selection()
  active_column_id,     \* self.active_column_id
  last_find_coords,     \* self.last_find_coords, 0-based positions
  find_var,             \* self.find_var
  replace_var,          \* self.replace_var
  last_header_find_index,   \* self.last_header_find_index
  last_header_search_term,  \* self.last_header_search_term
  last_header_search_type,  \* self.last_header_search_type
  cell_label,           \* the text of self.cell_pos_label contains "儲存格:"
  dialog,               \* the open PatternFillDialog, if any
  op,                   \* the callback that ran last and how it ended
  steps,                \* callbacks run so far
  limit,                \* callbacks the run may take
  rt,                   \* observer: mutations, then undos, then redos
  mark                  \* observer: the state before the last undo

vars == <<dataframe, undo_stack, redo_stack, undo_objs, redo_objs, clipboard_data, file_path,
          context_menu_row_id, context_menu_col_id, menu_posted, tree,
          selection, active_column_id, last_find_coords, find_var,
          replace_var, last_header_find_index, last_header_search_term,
          last_header_search_type, cell_label, dialog, op, steps, limit, rt,
          mark>>

hist == <<undo_stack, redo_stack, undo_objs, redo_objs>>
ctx == <<context_menu_row_id, context_menu_col_id>>
view == <<tree, selection, active_column_id>>
finder == <<last_find_coords, find_var, replace_var>>
header == <<last_header_find_index, last_header_search_term,
           last_header_search_type>>

NoDialog == [open |-> FALSE, start_value |-> <<>>, start_index |-> 0,
             start_column |-> <<>>, preview |-> <<>>]

\* The entries of a dialog when its button is pressed, with the seed shown.
NoRequest == [seed |-> <<>>, tab |-> "", count |-> <<>>, step |-> <<>>,
              lower |-> <<>>, upper |-> <<>>]

NoFrame == Frame(<<>>, <<>>, <<"none">>)

RtIdle == [n |-> 0, u |-> 0, r |-> 0, ref |-> NoFrame]

MarkNone == [tag |-> "none", df |-> NoFrame, undo |-> <<>>, redo |-> <<>>]

\* PySheetApp.__init__
Constructed ==
  /\ dataframe = EmptyFrame
  /\ undo_stack = <<>>
  /\ redo_stack = <<>>
  /\ undo_objs = <<>>
  /\ redo_objs = <<>>
  /\ clipboard_data = None
  /\ file_path = None
  /\ context_menu_row_id = Unset
  /\ context_menu_col_id = Unset
  /\ menu_posted = FALSE
  /\ tree = ClearedTree
  /\ selection = <<>>
  /\ active_column_id = None
  /\ last_find_coords = <<-1, -1>>
  /\ find_var = <<>>
  /\ replace_var = <<>>
  /\ last_header_find_index = -1
  /\ last_header_search_term = <<>>
  /\ last_header_search_type = <<>>
  /\ cell_label = TRUE
  /\ dialog = NoDialog
  /\ op = [name |-> "init", res |-> "ok", req |-> NoRequest, said |-> 0]
  /\ steps = 0
  /\ rt = RtIdle
  /\ mark = MarkNone

(***************************************************************************)
(* Observers.  rt follows a run of operations that changed the table, then  *)
(* the undos issued after it (ref is the table before the first of them)    *)
(* and the redos issued after those.  mark keeps the table and both stacks  *)
(* as they were before the last undo while only a redo has followed.        *)
(* kind: "mutation" (a mutating operation ran), "undo", "redo", "ui" (table *)
(* and stacks are not involved), "reset" (anything else).                   *)
(***************************************************************************)
RtNext(kind) ==
  CASE kind = "mutation" /\ dataframe' # dataframe ->
         [n |-> IF rt.u = 0 THEN rt.n + 1 ELSE 1, u |-> 0, r |-> 0,
          ref |-> NoFrame]
    [] kind = "undo" /\ rt.n >= 1 /\ rt.r = 0 /\ rt.u < rt.n ->
         [rt EXCEPT !.u = rt.u + 1,
                    !.ref = IF rt.u = 0 THEN dataframe ELSE rt.ref]
    [] kind = "redo" /\ rt.u >= 1 /\ rt.r < rt.u ->
         [rt EXCEPT !.r = rt.r + 1]
    [] kind = "ui" -> rt
    [] OTHER -> RtIdle

MarkNext(kind) ==
  CASE kind = "undo" ->
         [tag |-> IF undo_stack = <<>> THEN "undone_empty" ELSE "undone",
          df |-> dataframe, undo |-> undo_stack, redo |-> redo_stack]
    [] kind = "redo" /\ mark.tag = "undone" -> [mark EXCEPT !.tag = "redone"]
    [] kind = "redo" /\ redo_stack = <<>> ->
         [tag |-> "redo_empty", df |-> dataframe, undo |-> undo_stack,
          redo |-> redo_stack]
    [] OTHER -> MarkNone

\* Every callback starts with the run's step budget.
Running == steps < limit

\* said is the number a callback puts in its message boxes: the count
\* replace_all reports, the questions find_next asks.
ObserveSaid(name, res, kind, req, said) ==
  /\ UNCHANGED limit
  /\ op' = [name |-> name, res |-> res, req |-> req, said |-> said]
  /\ steps' = steps + 1
  /\ rt' = RtNext(kind)
  /\ mark' = MarkNext(kind)

ObserveRequest(name, res, kind, req) == ObserveSaid(name, res, kind, req, 0)

Observe(name, res, kind) == ObserveRequest(name, res, kind, NoRequest)

(***************************************************************************)
(* History.                                                                 *)
(***************************************************************************)
Entry(description, df) == [description |-> description, df |-> df]

\* The part of the state a mutation handler works on.
Cur == [df |-> dataframe, undo |-> undo_stack, redo |-> redo_stack,
        uobj |-> undo_objs, robj |-> redo_objs,
        tree |-> tree, sel |-> selection, res |-> "ok"]

WithRes(s, r) == [s EXCEPT !.res = r]

(***************************************************************************)
(* Object identity.  self.dataframe names a DataFrame object, and so does   *)
(* every stack entry; the live object is 0 and uobj, robj give the object   *)
(* of each entry.  An assignment to self.dataframe makes another object     *)
(* the live one; .loc[...] = v, .iloc[...] = v, df[name] = v, insert() and  *)
(* drop(inplace=True) change the live object, and with it every entry that  *)
(* holds this object.                                                       *)
(***************************************************************************)
SeqMax(q) == IF q = <<>> THEN 0
             ELSE CHOOSE m \in {q[k] : k \in 1..Len(q)} :
                    \A k \in 1..Len(q) : q[k] <= m

\* An object nothing refers to yet.
Fresh(s) == SeqMax(s.uobj \o s.robj) + 1

Renamed(q, from, to) == [k \in 1..Len(q) |-> IF q[k] = from THEN to ELSE q[k]]

\* self.dataframe = <a new DataFrame>: the entries that held the live object
\* hold the object that was live.
Rebind(s, df) ==
  [s EXCEPT !.df = df,
            !.uobj = Renamed(s.uobj, 0, Fresh(s)),
            !.robj = Renamed(s.robj, 0, Fresh(s))]

\* A change of the live object in place.
Written(stack, objs, df) ==
  [k \in 1..Len(stack) |->
     IF objs[k] = 0 THEN [stack[k] EXCEPT !.df = df] ELSE stack[k]]

Write(s, df) ==
  [s EXCEPT !.df = df,
            !.undo = Written(s.undo, s.uobj, df),
            !.redo = Written(s.redo, s.robj, df)]

\* The objects numbered in the order of the entries, undo stack first.
Canonical(q) ==
  [k \in 1..Len(q) |->
     IF q[k] = 0 THEN 0
     ELSE LET first == CHOOSE i \in 1..k :
                         q[i] = q[k] /\ \A j \in 1..(i - 1) : q[j] # q[k]
          IN 1 + Cardinality({q[j] : j \in 1..(first - 1)} \ {0})]

\* The undo that pushes the live DataFrame itself and not a copy of it.
AddToUndoWithoutCopy(s, description) ==
  [s EXCEPT !.undo = Append(s.undo, Entry(description, s.df)),
            !.uobj = Append(s.uobj, 0),
            !.redo = <<>>, !.robj = <<>>]

\* self._add_to_undo((description, self.dataframe.copy()))
_add_to_undo(s, description) ==
  [s EXCEPT !.undo = Append(s.undo, Entry(description, s.df)),
            !.uobj = Append(s.uobj, Fresh(s)),
            !.redo = <<>>, !.robj = <<>>]

\* self._normalize_headers()
Normalize(s) == IF IsEmpty(s.df) THEN s ELSE Rebind(s, _normalize_headers(s.df))

\* self._load_data_to_treeview(): deleting the items empties the selection.
Reload(s) == [s EXCEPT !.tree = _load_data_to_treeview(s.df), !.sel = <<>>]

\* _apply_change(df_index, col_name, value)
_apply_change(s, df_index, col_name, value) ==
  LET d == LocSet(s.df, df_index, col_name, value)
      r == PosOf(d.index, df_index)
  IN [Write(s, d) EXCEPT
               !.tree = TreeSetValues(s.tree, PyStrInt(df_index),
                          [j \in 1..NCols(d) |-> PyStr(d.values[r][j])])]

\* The handler's result becomes the state.  Results larger than the model's
\* table bounds are left out.
Commit(s) ==
  /\ NRows(s.df) <= MaxRows
  /\ NCols(s.df) <= MaxCols
  /\ dataframe' = s.df
  /\ undo_stack' = s.undo
  /\ redo_stack' = s.redo
  /\ undo_objs' = SubSeq(Canonical(s.uobj \o s.robj), 1, Len(s.uobj))
  /\ redo_objs' = SubSeq(Canonical(s.uobj \o s.robj), Len(s.uobj) + 1,
                         Len(s.uobj) + Len(s.robj))
  /\ tree' = s.tree
  /\ selection' = s.sel

Top(stack) == stack[Len(stack)]
Pop(stack) == SubSeq(stack, 1, Len(stack) - 1)

\* undo_action
UndoResult(s) ==
  IF s.undo = <<>> THEN WithRes(s, "return")
  ELSE LET old == Rebind(s, s.df)
           live == Top(old.uobj)
       IN Reload([old EXCEPT
            !.redo = Append(s.redo, Entry(Top(s.undo).description, s.df)),
            !.robj = Renamed(Append(old.robj, Fresh(old)), live, 0),
            !.undo = Pop(s.undo),
            !.uobj = Renamed(Pop(old.uobj), live, 0),
            !.df = Top(s.undo).df])

undo_action ==
  /\ Running
  /\ UNCHANGED header
  /\ UNCHANGED cell_label
  /\ LET e == UndoResult(Cur)
     IN /\ Commit(e)
        /\ Observe("undo", e.res, "undo")
  /\ UNCHANGED <<clipboard_data, file_path, ctx, menu_posted, active_column_id,
                 finder, dialog>>

\* The redo that pushes the frame it restores instead of the live one.
RedoResultPushesRestored(s) ==
  IF s.redo = <<>> THEN WithRes(s, "return")
  ELSE LET old == Rebind(s, s.df)
           live == Top(old.robj)
       IN Reload([old EXCEPT
            !.undo = Append(s.undo, Entry(Top(s.redo).description, Top(s.redo).df)),
            !.uobj = Renamed(Append(old.uobj, Fresh(old)), live, 0),
            !.redo = Pop(s.redo),
            !.robj = Renamed(Pop(old.robj), live, 0),
            !.df = Top(s.redo).df])

\* redo_action
RedoResult(s) ==
  IF s.redo = <<>> THEN WithRes(s, "return")
  ELSE LET old == Rebind(s, s.df)
           live == Top(old.robj)
       IN Reload([old EXCEPT
            !.undo = Append(s.undo, Entry(Top(s.redo).description, s.df)),
            !.uobj = Renamed(Append(old.uobj, Fresh(old)), live, 0),
            !.redo = Pop(s.redo),
            !.robj = Renamed(Pop(old.robj), live, 0),
            !.df = Top(s.redo).df])

redo_action ==
  /\ Running
  /\ UNCHANGED header
  /\ UNCHANGED cell_label
  /\ LET e == RedoResult(Cur)
     IN /\ Commit(e)
        /\ Observe("redo", e.res, "redo")
  /\ UNCHANGED <<clipboard_data, file_path, ctx, menu_posted, active_column_id,
                 finder, dialog>>

(***************************************************************************)
(* Selection and the context menu.                                          *)
(***************************************************************************)
\* <<TreeviewSelect>> -> _on_row_select: a first selection makes "#1" the
\* active column.
_on_row_select(col) == IF col = None THEN ColId(1) ELSE col

\* The label after selection_set(sel): <<TreeviewSelect>> runs _on_row_select,
\* whose _update_active_cell_display writes "儲存格:..."; a Tk that sends the
\* event only for a changed selection leaves the label when sel is the same.
LabelAfterSelect(label, old_sel, sel) ==
  IF sel = <<>> THEN {label}
  ELSE IF sel # old_sel THEN {TRUE}
  ELSE {TRUE, label}

\* The cells the pointer can be over: an item of the tree and a display column.
TreeCells == {<<iid, ColId(k)>> : iid \in TreeIids(tree), k \in 1..Len(tree.columns)}

\* _show_context_menu: over a cell, or over the empty area below the rows.
_show_context_menu ==
  /\ Running
  /\ UNCHANGED header
  /\ \/ \E cell \in TreeCells :
          /\ context_menu_row_id' = cell[1]
          /\ context_menu_col_id' = cell[2]
          /\ selection' = <<cell[1]>>
          /\ active_column_id' = _on_row_select(active_column_id)
          /\ menu_posted' = TRUE
          /\ cell_label' = IF selection' # selection THEN TRUE ELSE cell_label
          /\ Observe("show_context_menu", "ok", "ui")
     \/ /\ context_menu_row_id' = <<>>
        /\ context_menu_col_id' = ColId(1)
        /\ UNCHANGED <<selection, active_column_id, menu_posted, cell_label>>
        /\ Observe("show_context_menu", "return", "ui")
  /\ UNCHANGED <<dataframe, hist, clipboard_data, file_path, tree, finder, dialog>>

\* _on_cell_click
_on_cell_click ==
  /\ Running
  /\ UNCHANGED header
  /\ cell_label' = TRUE
  /\ \E cell \in TreeCells :
       /\ selection' = <<cell[1]>>
       /\ active_column_id' = cell[2]
  /\ Observe("cell_click", "ok", "ui")
  /\ UNCHANGED <<dataframe, hist, clipboard_data, file_path, ctx, menu_posted,
                 tree, finder, dialog>>

\* _get_context_cell: [ok, row_id, col_name]; ok is FALSE for (None, None) and
\* for the AttributeError of a field no right click has assigned yet.
_get_context_cell(df, row_id, col_id) ==
  LET ci == ColIndexOf(col_id)
      bad == [ok |-> FALSE, row_id |-> <<>>, col_name |-> <<>>]
  IN IF row_id = Unset \/ col_id = Unset THEN bad
     ELSE IF row_id = <<>> \/ col_id = <<>> THEN bad
     ELSE IF ~ci.ok THEN bad
     ELSE IF ci.val < 0 THEN bad
     ELSE IF ci.val >= NCols(df) THEN bad
     ELSE [ok |-> TRUE, row_id |-> row_id, col_name |-> df.columns[ci.val + 1]]

\* A command of the context menu needs the menu on screen and takes it down; the
\* Edit menu and the key bindings need nothing.
ByMenu == menu_posted /\ menu_posted' = FALSE
ByKey == UNCHANGED menu_posted

\* _copy_cell: the clipboard after it, and whether the handler got that far
\* (df.loc raises KeyError for a row that is not there).
CopyResult(df, row_id, col_id, clip) ==
  LET g == _get_context_cell(df, row_id, col_id)
      i == PyInt(g.row_id)
  IN IF ~g.ok THEN [clip |-> clip, res |-> "return"]
     ELSE IF ~i.ok THEN [clip |-> clip, res |-> "ValueError"]
     ELSE IF ~HasRow(df, i.val) THEN [clip |-> clip, res |-> "KeyError"]
     ELSE [clip |-> LocGet(df, i.val, g.col_name), res |-> "ok"]

_copy_cell ==
  /\ Running
  /\ UNCHANGED header
  /\ UNCHANGED cell_label
  /\ ByMenu \/ ByKey
  /\ LET c == CopyResult(dataframe, context_menu_row_id, context_menu_col_id,
                         clipboard_data)
     IN /\ clipboard_data' = c.clip
        /\ Observe("copy", c.res, "ui")
  /\ UNCHANGED <<dataframe, hist, file_path, ctx, view, finder, dialog>>

\* The cut that takes its snapshot after it emptied the cell.
CutResultSnapshotsAfter(s, row_id, col_id, clip) ==
  LET g == _get_context_cell(s.df, row_id, col_id)
      c == CopyResult(s.df, row_id, col_id, clip)
      i == PyInt(g.row_id)
      d == _apply_change(s, i.val, g.col_name, <<>>)
  IN IF ~g.ok THEN WithRes(s, "return")
     ELSE IF c.res # "ok" THEN WithRes(s, c.res)
     ELSE _add_to_undo(d, "Cut")

\* _cut_cell
CutResult(s, row_id, col_id, clip) ==
  LET g == _get_context_cell(s.df, row_id, col_id)
      c == CopyResult(s.df, row_id, col_id, clip)
      i == PyInt(g.row_id)
  IN IF ~g.ok THEN WithRes(s, "return")
     ELSE IF c.res # "ok" THEN WithRes(s, c.res)
     ELSE _apply_change(_add_to_undo(s, "Cut"), i.val, g.col_name, <<>>)

_cut_cell ==
  /\ Running
  /\ UNCHANGED header
  /\ UNCHANGED cell_label
  /\ ByMenu \/ ByKey
  /\ LET c == CopyResult(dataframe, context_menu_row_id, context_menu_col_id,
                         clipboard_data)
         e == CutResult(Cur, context_menu_row_id, context_menu_col_id,
                        clipboard_data)
     IN /\ clipboard_data' = c.clip
        /\ Commit(e)
        /\ Observe("cut", e.res, "mutation")
  /\ UNCHANGED <<file_path, ctx, active_column_id, finder, dialog>>

\* _paste_cell
PasteResult(s, row_id, col_id, clip) ==
  LET g == _get_context_cell(s.df, row_id, col_id)
      i == PyInt(g.row_id)
  IN IF clip = None THEN WithRes(s, "return")
     ELSE IF ~g.ok THEN WithRes(s, "return")
     ELSE IF ~i.ok THEN WithRes(s, "ValueError")
     ELSE _apply_change(_add_to_undo(s, "Paste"), i.val, g.col_name, clip)

\* The paste that empties the clipboard it read.
ClipboardTakenByPaste(clip) == None

\* self.clipboard_data after _paste_cell: the handler reads it and assigns
\* nothing to it.
ClipboardAfterPaste(clip) == clip

_paste_cell ==
  /\ Running
  /\ UNCHANGED header
  /\ UNCHANGED cell_label
  /\ ByMenu \/ ByKey
  /\ LET e == PasteResult(Cur, context_menu_row_id, context_menu_col_id,
                          clipboard_data)
     IN /\ Commit(e)
        /\ Observe("paste", e.res, "mutation")
  /\ clipboard_data' = ClipboardAfterPaste(clipboard_data)
  /\ UNCHANGED <<file_path, ctx, active_column_id, finder, dialog>>

(***************************************************************************)
(* Rows and columns (context menu only).                                    *)
(***************************************************************************)
\* pd.DataFrame([[""]]), normalized and shown.
OneBlankCell(s) ==
  Reload(Normalize(Rebind(s, RangeFrame(Full(1, 1, <<>>), 1))))

\* _delete_row
DeleteRowResult(s, row_id) ==
  LET pushed == _add_to_undo(s, "DeleteRow")
      i == PyInt(row_id)
  IN IF row_id = <<>> THEN WithRes(s, "return")
     ELSE IF ~i.ok THEN WithRes(pushed, "ValueError")
     ELSE IF ~HasRow(s.df, i.val) THEN WithRes(pushed, "KeyError")
     ELSE Reload(Normalize(Rebind(pushed, DropRow(s.df, i.val))))

_delete_row ==
  /\ Running
  /\ UNCHANGED header
  /\ UNCHANGED cell_label
  /\ ByMenu
  /\ LET e == DeleteRowResult(Cur, context_menu_row_id)
     IN /\ Commit(e)
        /\ Observe("delete_row", e.res, "mutation")
  /\ UNCHANGED <<clipboard_data, file_path, ctx, active_column_id, finder, dialog>>

\* pd.concat([df.iloc[:pos], new_row_df, df.iloc[pos:]]): the new row keeps its
\* own label 0 until the headers are normalized.
ConcatRow(df, pos) ==
  LET p == IF pos > NRows(df) THEN NRows(df) ELSE pos
  IN Frame(InsertAt(df.index, p, 0), df.columns,
           InsertAt(df.values, p, [j \in 1..NCols(df) |-> <<>>]))

\* _insert_row(above)
InsertRowResult(s, row_id, above) ==
  LET pushed == _add_to_undo(s, "InsertRow")
      row_pos == TreePos(s.tree, row_id) - 1
      insert_pos == IF row_id # <<>>
                    THEN IF TreeHas(s.tree, row_id)
                         THEN IF above THEN row_pos ELSE row_pos + 1
                         ELSE NRows(s.df)
                    ELSE NRows(s.df)
  IN IF IsEmpty(s.df) THEN OneBlankCell(pushed)
     ELSE Reload(Normalize(Rebind(pushed, ConcatRow(s.df, insert_pos))))

_insert_row ==
  /\ Running
  /\ UNCHANGED header
  /\ UNCHANGED cell_label
  /\ ByMenu
  /\ \E above \in BOOLEAN :
       LET e == InsertRowResult(Cur, context_menu_row_id, above)
       IN /\ Commit(e)
          /\ Observe("insert_row", e.res, "mutation")
  /\ UNCHANGED <<clipboard_data, file_path, ctx, active_column_id, finder, dialog>>

\* _delete_column: confirm is the answer to askyesno.
DeleteColumnResult(s, row_id, col_id, confirm) ==
  LET g == _get_context_cell(s.df, row_id, col_id)
      pushed == _add_to_undo(s, "DeleteColumn")
  IN IF ~g.ok THEN WithRes(s, "return")
     ELSE IF ~confirm THEN WithRes(s, "declined")
     ELSE Reload(Normalize(Write(pushed, DropCol(s.df, g.col_name))))

_delete_column ==
  /\ Running
  /\ UNCHANGED header
  /\ UNCHANGED cell_label
  /\ ByMenu
  /\ \E confirm \in BOOLEAN :
       LET e == DeleteColumnResult(Cur, context_menu_row_id,
                                   context_menu_col_id, confirm)
       IN /\ Commit(e)
          /\ Observe("delete_column", e.res, "mutation")
  /\ UNCHANGED <<clipboard_data, file_path, ctx, active_column_id, finder, dialog>>

\* _insert_column(left): DataFrame.insert raises IndexError for a position past
\* the last column, after the undo entry was pushed.
InsertColumnResult(s, col_id, left) ==
  LET pushed == _add_to_undo(s, "InsertColumn")
      ci == ColIndexOf(col_id)
      insert_pos == IF col_id # <<>>
                    THEN IF ~ci.ok THEN NCols(s.df)
                         ELSE IF ci.val >= 0
                              THEN IF left THEN ci.val ELSE ci.val + 1
                              ELSE 0
                    ELSE NCols(s.df)
  IN IF IsEmpty(s.df) THEN OneBlankCell(s)
     ELSE IF insert_pos > NCols(s.df) THEN WithRes(pushed, "IndexError")
     ELSE Reload(Normalize(
            Write(pushed, InsertCol(s.df, insert_pos, <<"__TEMP__">>, <<>>))))

_insert_column ==
  /\ Running
  /\ UNCHANGED header
  /\ UNCHANGED cell_label
  /\ ByMenu
  /\ \E left \in BOOLEAN :
       LET e == InsertColumnResult(Cur, context_menu_col_id, left)
       IN /\ Commit(e)
          /\ Observe("insert_column", e.res, "mutation")
  /\ UNCHANGED <<clipboard_data, file_path, ctx, active_column_id, finder, dialog>>

(***************************************************************************)
(* Extend Table.                                                            *)
(***************************************************************************)
\* The text of a count, step or bound entry.
CountTexts == {<<"1">>, <<"2">>, <<"0">>, <<"x">>}

\* execute_extend(count, direction)
execute_extend(s, count, direction) ==
  LET pushed == _add_to_undo(s, "ExtendTable")
      down == Frame(s.df.index \o [i \in 1..count |-> i - 1], s.df.columns,
                    s.df.values \o Full(count, NCols(s.df), <<>>))
      right == Frame(s.df.index,
                     s.df.columns \o [i \in 1..count |-> <<"__TEMP__">> \o NatStr(i - 1)],
                     [i \in 1..NRows(s.df) |->
                        s.df.values[i] \o [j \in 1..count |-> <<>>]])
      e == IF IsEmpty(s.df)
           THEN IF direction = "down"
                THEN Rebind(s, RangeFrame(Full(count, 1, <<>>), 1))
                ELSE Rebind(s, RangeFrame(Full(1, count, <<>>), count))
           ELSE IF direction = "down"
                THEN Rebind(pushed, down)
                ELSE Write(pushed, right)
  IN Reload(Normalize(e))

\* ExtendDialog.apply_extend
ExtendResult(s, count_text, direction) ==
  LET count == PyInt(count_text)
  IN IF ~count.ok THEN WithRes(s, "rejected")
     ELSE IF count.val <= 0 THEN WithRes(s, "rejected")
     ELSE execute_extend(s, count.val, direction)

apply_extend ==
  /\ Running
  /\ UNCHANGED header
  /\ UNCHANGED cell_label
  /\ \E count_text \in CountTexts, direction \in {"down", "right"} :
       LET e == ExtendResult(Cur, count_text, direction)
       IN /\ Commit(e)
          /\ ObserveRequest("extend", e.res, "mutation",
                            [NoRequest EXCEPT !.tab = direction, !.count = count_text])
  /\ UNCHANGED <<clipboard_data, file_path, ctx, menu_posted, active_column_id,
                 finder, dialog>>

(***************************************************************************)
(* New and Open.                                                            *)
(***************************************************************************)
\* The clearing that forgets the redo stack.
ClearUndoOnly(s) == [s EXCEPT !.undo = <<>>, !.uobj = <<>>]

\* self.undo_stack.clear(); self.redo_stack.clear()
ClearHistory(s) ==
  [s EXCEPT !.undo = <<>>, !.uobj = <<>>, !.redo = <<>>, !.robj = <<>>]

\* new_file
new_file ==
  /\ Running
  /\ UNCHANGED header
  /\ UNCHANGED cell_label
  /\ Commit(ClearHistory(Reload(
       Rebind(Cur, _normalize_headers(RangeFrame(Full(2, 2, <<>>), 2))))))
  /\ file_path' = None
  /\ Observe("new", "ok", "reset")
  /\ UNCHANGED <<clipboard_data, ctx, menu_posted, active_column_id, finder, dialog>>

\* What the readers return for the files of the model: a path, and the frame
\* read from it, or no frame when reading raises.
Files ==
  { [path |-> <<"t">>, ok |-> TRUE,
     df |-> Frame(<<7, 8>>, <<<<"x">>>>, <<<<<<"a">>>>, <<<<"a", "1">>>>>>)],
    [path |-> <<"e">>, ok |-> TRUE,
     df |-> Frame(<<>>, <<<<"x">>, <<"y">>>>, <<>>)],
    [path |-> <<"bad">>, ok |-> FALSE, df |-> EmptyFrame] }

\* open_file, after a path was chosen
open_file ==
  /\ Running
  /\ UNCHANGED header
  /\ UNCHANGED cell_label
  /\ \E f \in Files :
       /\ file_path' = f.path
       /\ IF f.ok
          THEN /\ Commit(ClearHistory(Reload(
                    Rebind(Cur, _normalize_headers(AsStr(f.df))))))
               /\ Observe("open", "ok", "reset")
          ELSE /\ Commit([Rebind(Cur, EmptyFrame) EXCEPT
                          !.tree = ClearedTree, !.sel = <<>>])
               /\ Observe("open", "failed", "reset")
  /\ UNCHANGED <<clipboard_data, ctx, menu_posted, active_column_id, finder, dialog>>

(***************************************************************************)
(* Editing a cell.                                                          *)
(***************************************************************************)
\* What the user types into the cell entry or the edit dialog.
EditTexts == {<<"a">>, <<"b", "2">>}

\* _update_cell_from_input: tree.heading raises TclError for a display column
\* the tree does not have.
UpdateCellResult(s, active_col, new_value) ==
  LET ci == ColIndexOf(active_col)
      i == PyInt(s.sel[1])
  IN IF s.sel = <<>> THEN WithRes(s, "return")
     ELSE IF ~cell_label \/ active_col = None THEN WithRes(s, "return")
     ELSE IF ~ci.ok \/ ci.val < 0 \/ ci.val >= Len(s.tree.columns)
          THEN WithRes(s, "TclError")
     ELSE IF ~i.ok THEN WithRes(s, "return")
     ELSE _apply_change(_add_to_undo(s, "edit"), i.val,
                        s.tree.columns[ci.val + 1], new_value)

_update_cell_from_input ==
  /\ Running
  /\ UNCHANGED header
  /\ UNCHANGED cell_label
  /\ \E new_value \in EditTexts :
       LET e == UpdateCellResult(Cur, active_column_id, new_value)
       IN /\ Commit(e)
          /\ Observe("update_cell", e.res, "mutation")
  /\ UNCHANGED <<clipboard_data, file_path, ctx, menu_posted, active_column_id,
                 finder, dialog>>

\* _edit_cell_popup on the cell (item_id, column_id); new_value is the answer of
\* askstring, None when the dialog is cancelled.
EditCellResult(s, item_id, column_id, new_value) ==
  LET ci == ColIndexOf(column_id)
      i == PyInt(item_id)
      column_name == s.tree.columns[ci.val + 1]
  IN IF ~ci.ok \/ ci.val < 0 \/ ci.val >= Len(s.tree.columns)
     THEN WithRes(s, "return")
     ELSE IF ~i.ok THEN WithRes(s, "return")
     ELSE IF ~HasRow(s.df, i.val) \/ ~HasCol(s.df, column_name)
          THEN WithRes(s, "return")
     ELSE IF new_value = None THEN WithRes(s, "cancelled")
     ELSE IF new_value = PyStr(LocGet(s.df, i.val, column_name))
          THEN WithRes(s, "same")
     ELSE _apply_change(_add_to_undo(s, "EditCell"), i.val, column_name, new_value)

\* A double click: <Button-1> selects the cell (_on_cell_click), then <Double-1>
\* opens the edit dialog.
_edit_cell_popup ==
  /\ Running
  /\ UNCHANGED header
  /\ cell_label' = TRUE
  /\ \E cell \in TreeCells, new_value \in EditTexts \cup {None} :
       LET clicked == [Cur EXCEPT !.sel = <<cell[1]>>]
           e == EditCellResult(clicked, cell[1], cell[2], new_value)
       IN /\ Commit(e)
          /\ active_column_id' = cell[2]
          /\ Observe("edit_cell", e.res, "mutation")
  /\ UNCHANGED <<clipboard_data, file_path, ctx, menu_posted, finder, dialog>>

(***************************************************************************)
(* Find and replace.                                                        *)
(***************************************************************************)
\* The text of the find entry and of the replace entry when a button is pressed.
FindTexts == {<<"a">>, <<"1">>}
ReplaceTexts == {<<>>, <<"a">>}

\* The loops of find_next: the first cell at or after the start, 0-based,
\* whose text contains the term; <<-1, -1>> when there is none.
ScanFrom(df, coords, find_term) ==
  LET start_row == coords[1]
      start_col == coords[2] + 1
      first_i == IF start_row # -1 THEN start_row ELSE 0
      hits == {c \in (0..(NRows(df) - 1)) \X (0..(NCols(df) - 1)) :
                 /\ c[1] >= first_i
                 /\ c[2] >= (IF c[1] = start_row THEN start_col ELSE 0)
                 /\ Contains(PyStr(df.values[c[1] + 1][c[2] + 1]), find_term)}
  IN IF hits = {} THEN <<-1, -1>>
     ELSE CHOOSE c \in hits :
            \A d \in hits : c[1] < d[1] \/ (c[1] = d[1] /\ c[2] <= d[2])

\* highlight_cell: the cursor moves first; selection_set raises TclError for a
\* row the tree does not show.
highlight_cell(f, df, hit) ==
  LET iid == PyStrInt(df.index[hit[1] + 1])
  IN IF TreeHas(f.tree, iid)
     THEN [f EXCEPT !.coords = hit, !.sel = <<iid>>, !.res = "found"]
     ELSE [f EXCEPT !.coords = hit, !.res = "TclError"]

\* find_next on f = [coords, tree, sel, asked, res]; wrap is the answer to
\* askyesno, and asked counts the questions.
RECURSIVE find_next(_, _, _, _)
find_next(f, df, find_term, wrap) ==
  LET hit == ScanFrom(df, f.coords, find_term)
      q == [f EXCEPT !.asked = @ + 1]
  IN IF find_term = <<>> THEN [f EXCEPT !.res = "return"]
     ELSE IF hit # <<-1, -1>> THEN highlight_cell(f, df, hit)
     ELSE IF f.coords # <<-1, -1>>
          THEN IF wrap
               THEN find_next([q EXCEPT !.coords = <<-1, -1>>], df, find_term, wrap)
               ELSE [q EXCEPT !.res = "no_wrap"]
          ELSE [f EXCEPT !.res = "not_found"]

Finder(s) == [coords |-> last_find_coords, tree |-> s.tree, sel |-> s.sel,
              asked |-> 0, res |-> "ok"]

\* The virtual event of a selection made by the handler.
Selected(f) ==
  active_column_id' = IF f.sel # selection /\ f.sel # <<>>
                      THEN _on_row_select(active_column_id)
                      ELSE active_column_id

FindNext ==
  /\ Running
  /\ UNCHANGED header
  /\ \E find_term \in FindTexts, wrap \in BOOLEAN :
       LET f == find_next(Finder(Cur), dataframe, find_term, wrap)
       IN /\ find_var' = find_term
          /\ last_find_coords' = f.coords
          /\ selection' = f.sel
          /\ Selected(f)
          /\ cell_label' \in IF f.res = "found"
                              THEN LabelAfterSelect(cell_label, selection, f.sel)
                              ELSE {cell_label}
          /\ ObserveSaid("find_next", f.res, "ui", NoRequest, f.asked)
  /\ UNCHANGED <<dataframe, hist, clipboard_data, file_path, ctx, menu_posted,
                 tree, replace_var, dialog>>

\* replace_cell, up to its closing find_next: [s, res], res "find" when the
\* handler only searches, "replaced" when it wrote the cell.
ReplaceCellResult(s, coords, find_term, replace_term) ==
  LET i == PyInt(s.sel[1])
      row_idx == coords[1]
      col_idx == coords[2]
      old_value == PyStr(s.df.values[row_idx + 1][col_idx + 1])
      new_value == ReplaceFirst(old_value, find_term, replace_term)
  IN IF s.sel = <<>> THEN WithRes(s, "find")
     ELSE IF ~i.ok THEN WithRes(s, "ValueError")
     ELSE IF ~HasRow(s.df, i.val) THEN WithRes(s, "KeyError")
     ELSE IF PosOf(s.df.index, i.val) - 1 # row_idx \/ col_idx = -1
          THEN WithRes(s, "find")
     ELSE IF col_idx >= NCols(s.df) THEN WithRes(s, "IndexError")
     ELSE WithRes(_apply_change(_add_to_undo(s, "edit"), i.val,
                                s.df.columns[col_idx + 1], new_value),
                  "replaced")

replace_cell ==
  /\ Running
  /\ UNCHANGED header
  /\ \E find_term \in FindTexts, replace_term \in ReplaceTexts, wrap \in BOOLEAN :
       LET e == ReplaceCellResult(Cur, last_find_coords, find_term, replace_term)
           searching == e.res \in {"find", "replaced"}
           f == IF searching
                THEN find_next(Finder(e), e.df, find_term, wrap)
                ELSE Finder(e)
       IN /\ find_var' = find_term
          /\ replace_var' = replace_term
          /\ Commit([e EXCEPT !.sel = f.sel])
          /\ last_find_coords' = f.coords
          /\ Selected(f)
          /\ cell_label' \in IF f.res = "found"
                              THEN LabelAfterSelect(cell_label, selection, f.sel)
                              ELSE {cell_label}
          /\ Observe("replace_cell", e.res, "mutation")
  /\ UNCHANGED <<clipboard_data, file_path, ctx, menu_posted, dialog>>

\* The replacement of the first occurrence only in every cell.
ReplacedFrameFirstOnly(df, find_term, replace_term) ==
  Frame(df.index, df.columns,
        [i \in 1..NRows(df) |->
           [j \in 1..NCols(df) |->
              ReplaceFirst(PyStr(df.values[i][j]), find_term, replace_term)]])

\* The frame replace_all computes, and the count it reports.
ReplacedFrame(df, find_term, replace_term) ==
  Frame(df.index, df.columns,
        [i \in 1..NRows(df) |->
           [j \in 1..NCols(df) |->
              StrReplace(PyStr(df.values[i][j]), find_term, replace_term)]])

FoundCount(df, new_df) ==
  Cardinality({c \in (1..NRows(df)) \X (1..NCols(df)) :
                 PyStr(df.values[c[1]][c[2]]) # new_df.values[c[1]][c[2]]})

\* replace_all
ReplaceAllResult(s, find_term, replace_term) ==
  LET pushed == _add_to_undo(s, "replace_all")
      new_df == ReplacedFrame(s.df, find_term, replace_term)
  IN IF find_term = <<>> THEN WithRes(s, "return")
     ELSE IF FoundCount(s.df, new_df) > 0
          THEN WithRes(Reload(Rebind(pushed, new_df)), "replaced")
          ELSE WithRes([pushed EXCEPT !.undo = Pop(pushed.undo),
                                      !.uobj = Pop(pushed.uobj)], "not_found")

replace_all ==
  /\ Running
  /\ UNCHANGED header
  /\ UNCHANGED cell_label
  /\ \E find_term \in FindTexts, replace_term \in ReplaceTexts :
       LET e == ReplaceAllResult(Cur, find_term, replace_term)
           found_count == FoundCount(dataframe,
                                     ReplacedFrame(dataframe, find_term, replace_term))
       IN /\ find_var' = find_term
          /\ replace_var' = replace_term
          /\ Commit(e)
          /\ ObserveSaid("replace_all", e.res, "mutation", NoRequest,
                         IF e.res = "replaced" THEN found_count ELSE 0)
  /\ UNCHANGED <<clipboard_data, file_path, ctx, menu_posted, active_column_id,
                 last_find_coords, dialog>>

(***************************************************************************)
(* Find Header.                                                             *)
(***************************************************************************)
\* The text of the header entry when the button is pressed.
HeaderTexts == {<<"a">>, <<"1">>}

LowerLetters == <<"a", "b", "c", "d", "e", "f", "g", "h", "i", "j", "k", "l",
                  "m", "n", "o", "p", "q", "r", "s", "t", "u", "v", "w", "x",
                  "y", "z">>

\* str.lower()
Lower(s) ==
  [k \in 1..Len(s) |->
     IF \E i \in 1..26 : Letters[i] = s[k]
     THEN LowerLetters[CHOOSE i \in 1..26 : Letters[i] = s[k]]
     ELSE s[k]]

\* fuzz.ratio(a, b) of fuzzywuzzy, 100 * 2M / (len(a) + len(b)) rounded, for
\* the headers of the model, which have one character: M is 1 when the
\* character occurs in a.
FuzzRatio(a, b) ==
  IF a = <<>> \/ b = <<>> THEN 0
  ELSE IF Len(b) = 1 /\ Contains(a, b) THEN (200 + ((Len(a) + 1) \div 2)) \div (Len(a) + 1)
  ELSE IF Len(a) = 1 /\ Contains(b, a) THEN (200 + ((Len(b) + 1) \div 2)) \div (Len(b) + 1)
  ELSE IF a = b THEN 100
  ELSE 0

HeaderMatches(term, hdr, fuzzy) ==
  IF fuzzy THEN FuzzRatio(Lower(term), Lower(hdr)) > 70
  ELSE Contains(Lower(hdr), Lower(term))

\* The cursor that is reset for another term only.
HeaderCursorKeyedByTerm(term, search_type) ==
  IF term # last_header_search_term THEN -1 ELSE last_header_find_index

\* last_header_find_index after the comparison with the last term and scope.
HeaderCursor(term, search_type) ==
  IF term # last_header_search_term \/ search_type # last_header_search_type
  THEN -1 ELSE last_header_find_index

\* find_next_header as [index, sel, label, asked, res]: the cursor, the
\* selection, whether the label still reads "儲存格:" when the handler returns
\* and the number of questions asked.
HeaderResult(df, t, sel, term, search_type, fuzzy, wrap) ==
  LET from == HeaderCursor(term, search_type)
      headers == IF search_type = "column" THEN df.columns
                 ELSE [k \in 1..NRows(df) |-> PyStrInt(df.index[k])]
      past == from + 1 >= Len(headers)
      start_index == IF past THEN 0 ELSE from + 1
      hits == {i \in start_index..(Len(headers) - 1) :
                 HeaderMatches(term, headers[i + 1], fuzzy)}
      i == CHOOSE h \in hits : \A g \in hits : h <= g
      row_id_str == headers[i + 1]
      out == [index |-> from, sel |-> sel, label |-> cell_label,
              asked |-> IF past THEN 1 ELSE 0, res |-> "return"]
  IN IF past /\ ~wrap THEN out
     ELSE IF hits = {}
          THEN [out EXCEPT !.index = -1, !.res = "not_found"]
     ELSE IF search_type = "column"
          THEN IF t.rows = <<>>
               THEN [out EXCEPT !.index = i, !.res = "found"]
               ELSE [out EXCEPT !.index = i, !.sel = <<t.rows[1].iid>>,
                                !.label = FALSE, !.res = "found"]
     ELSE IF TreeHas(t, row_id_str)
          THEN [out EXCEPT !.index = i, !.sel = <<row_id_str>>, !.res = "found"]
          ELSE [out EXCEPT !.index = i, !.res = "TclError"]

\* find_next_header, then the <<TreeviewSelect>> of its selection_set.
find_next_header ==
  /\ Running
  /\ \E term \in HeaderTexts, search_type \in {"column", "row"},
        fuzzy \in BOOLEAN, wrap \in BOOLEAN :
       LET h == HeaderResult(dataframe, tree, selection, term, search_type,
                             fuzzy, wrap)
       IN /\ last_header_search_term' = term
          /\ last_header_search_type' = search_type
          /\ last_header_find_index' = h.index
          /\ selection' = h.sel
          /\ active_column_id' = IF h.sel # <<>> /\ h.res = "found"
                                 THEN _on_row_select(active_column_id)
                                 ELSE active_column_id
          /\ cell_label' \in IF h.res = "found" /\ h.sel # <<>>
                              THEN LabelAfterSelect(h.label, selection, h.sel)
                              ELSE {h.label}
          /\ ObserveSaid("find_header", h.res, "ui",
                         [NoRequest EXCEPT !.tab = IF fuzzy THEN "fuzzy" ELSE "exact"],
                         h.asked)
  /\ UNCHANGED <<dataframe, hist, clipboard_data, file_path, ctx, menu_posted,
                 tree, finder, dialog>>

(***************************************************************************)
(* Save.                                                                    *)
(***************************************************************************)
\* The paths the save dialog returns; <<>> when it is cancelled.
SavePaths == {<<"t">>, <<>>}

\* pd.to_numeric(column, errors='ignore'): a column whose cells are all
\* integer texts or empty becomes numbers (an empty text becomes nan).
ToNumeric(df) ==
  LET numeric(j) == \A i \in 1..NRows(df) :
                      df.values[i][j] = <<>> \/ PyInt(PyStr(df.values[i][j])).ok
  IN Frame(df.index, df.columns,
           [i \in 1..NRows(df) |-> [j \in 1..NCols(df) |->
              IF ~numeric(j) THEN df.values[i][j]
              ELSE IF df.values[i][j] = <<>> THEN NaN
              ELSE <<"int">> \o df.values[i][j]]])

\* The save that converts the columns of the live table and not of a copy.
ExecuteSaveWithoutCopy(df, path, written) ==
  IF IsEmpty(df) THEN [df |-> df, path |-> file_path, res |-> "no_data"]
  ELSE IF written THEN [df |-> ToNumeric(df), path |-> path, res |-> "saved"]
  ELSE [df |-> ToNumeric(df), path |-> file_path, res |-> "failed"]

\* _execute_save(path): the live table and the current path after it; the
\* columns are converted in df_to_save, a copy; written is FALSE when the
\* writer raises.
ExecuteSaveResult(df, path, written) ==
  IF IsEmpty(df) THEN [df |-> df, path |-> file_path, res |-> "no_data"]
  ELSE IF written THEN [df |-> df, path |-> path, res |-> "saved"]
  ELSE [df |-> df, path |-> file_path, res |-> "failed"]

\* save_file_as
SaveAsResult(df, path, written) ==
  IF path = <<>> THEN [df |-> df, path |-> file_path, res |-> "cancelled"]
  ELSE ExecuteSaveResult(df, path, written)

save_file_as ==
  /\ Running
  /\ \E path \in SavePaths, written \in BOOLEAN :
       LET r == SaveAsResult(dataframe, path, written)
       IN /\ file_path' = r.path
          /\ dataframe' = r.df
          /\ Observe("save_as", r.res, "ui")
  /\ UNCHANGED <<hist, clipboard_data, ctx, menu_posted, view, finder,
                 header, cell_label, dialog>>

\* save_file
save_file ==
  /\ Running
  /\ \E path \in SavePaths, written \in BOOLEAN :
       LET r == IF file_path # None /\ file_path # <<>>
                THEN ExecuteSaveResult(dataframe, file_path, written)
                ELSE SaveAsResult(dataframe, path, written)
       IN /\ file_path' = r.path
          /\ dataframe' = r.df
          /\ Observe("save", r.res, "ui")
  /\ UNCHANGED <<hist, clipboard_data, ctx, menu_posted, view, finder,
                 header, cell_label, dialog>>

(***************************************************************************)
(* Pattern fill.                                                            *)
(***************************************************************************)
\* open_pattern_fill_dialog
OpenDialogResult(df, t, sel, active_col) ==
  LET ci == ColIndexOf(active_col)
      i == PyInt(sel[1])
      column_name == t.columns[ci.val + 1]
      closed == [NoDialog EXCEPT !.open = dialog.open,
                                 !.start_value = dialog.start_value,
                                 !.start_index = dialog.start_index,
                                 !.start_column = dialog.start_column,
                                 !.preview = dialog.preview]
  IN IF sel = <<>> \/ active_col = None THEN closed
     ELSE IF ~ci.ok \/ ci.val < 0 \/ ci.val >= Len(t.columns) THEN closed
     ELSE IF ~i.ok THEN closed
     ELSE IF ~HasRow(df, i.val) \/ ~HasCol(df, column_name) THEN closed
     ELSE [open |-> TRUE,
           start_value |-> PyStr(LocGet(df, i.val, column_name)),
           start_index |-> i.val,
           start_column |-> column_name,
           preview |-> <<>>]

open_pattern_fill_dialog ==
  /\ Running
  /\ UNCHANGED header
  /\ UNCHANGED cell_label
  /\ dialog' = OpenDialogResult(dataframe, tree, selection, active_column_id)
  /\ Observe("open_fill_dialog", IF dialog' = dialog THEN "return" ELSE "ok", "ui")
  /\ UNCHANGED <<dataframe, hist, clipboard_data, file_path, ctx, menu_posted,
                 view, finder>>

\* re.match(r'^(.*?)(\d+)$', s): the length of the trailing run of digits.
RECURSIVE TrailingDigits(_)
TrailingDigits(s) ==
  IF s = <<>> THEN 0
  ELSE IF IsDigit(s[Len(s)]) THEN 1 + TrailingDigits(SubSeq(s, 1, Len(s) - 1))
  ELSE 0

\* The seed as [ok, prefix, num]: the regular expression first, int(seed) when
\* it does not match.
Decompose(start_value) ==
  LET k == TrailingDigits(start_value)
      whole == PyInt(start_value)
  IN IF k > 0
     THEN [ok |-> TRUE,
           prefix |-> SubSeq(start_value, 1, Len(start_value) - k),
           num |-> DigitsValue(SubSeq(start_value, Len(start_value) - k + 1,
                                      Len(start_value)))]
     ELSE IF whole.ok THEN [ok |-> TRUE, prefix |-> <<>>, num |-> whole.val]
     ELSE [ok |-> FALSE, prefix |-> start_value, num |-> 0]

\* The loop that adds the step before it appends.
RECURSIVE SequenceValuesStepFirst(_, _, _, _)
SequenceValuesStepFirst(prefix, current_num, step, count) ==
  IF count = 0 THEN <<>>
  ELSE <<prefix \o PyStrInt(current_num + step)>>
         \o SequenceValuesStepFirst(prefix, current_num + step, step, count - 1)

\* The loop of the sequence tab: append, then add the step.
RECURSIVE SequenceValues(_, _, _, _)
SequenceValues(prefix, current_num, step, count) ==
  IF count = 0 THEN <<>>
  ELSE <<prefix \o PyStrInt(current_num)>>
         \o SequenceValues(prefix, current_num + step, step, count - 1)

\* The step that wraps one place too far above the upper bound.
CycleStepWrapsLate(current_num, step, lower, upper) ==
  LET n == current_num + step
  IN IF n > upper THEN lower + ((n - upper) % (upper - lower + 1))
     ELSE IF n < lower THEN upper - ((lower - n - 1) % (upper - lower + 1))
     ELSE n

\* One step of the cyclic progression.
CycleStep(current_num, step, lower, upper) ==
  LET n == current_num + step
  IN IF n > upper THEN lower + ((n - upper - 1) % (upper - lower + 1))
     ELSE IF n < lower THEN upper - ((lower - n - 1) % (upper - lower + 1))
     ELSE n

RECURSIVE CycleValues(_, _, _, _, _, _)
CycleValues(prefix, current_num, step, lower, upper, count) ==
  IF count = 0 THEN <<>>
  ELSE <<prefix \o PyStrInt(current_num)>>
         \o CycleValues(prefix, CycleStep(current_num, step, lower, upper),
                        step, lower, upper, count - 1)

Abs(x) == IF x < 0 THEN 0 - x ELSE x

\* The generator that accepts a span of bounds equal to the magnitude of the
\* step.
GenerateFillDataSpanNotStrict(start_value, q) ==
  LET fill_count == PyInt(q.count)
      seed == Decompose(start_value)
      step == PyInt(q.step)
      lower == PyInt(q.lower)
      upper == PyInt(q.upper)
      none == [ok |-> FALSE, data |-> <<>>]
  IN IF ~fill_count.ok THEN none
     ELSE IF fill_count.val <= 0 THEN none
     ELSE IF q.tab # "copy" /\ ~seed.ok THEN none
     ELSE IF q.tab = "copy"
          THEN [ok |-> TRUE, data |-> [k \in 1..fill_count.val |-> start_value]]
     ELSE IF q.tab = "sequence"
          THEN IF ~step.ok THEN none
               ELSE [ok |-> TRUE,
                     data |-> SequenceValues(seed.prefix, seed.num, step.val,
                                             fill_count.val)]
     ELSE IF ~step.ok \/ ~lower.ok \/ ~upper.ok THEN none
     ELSE IF lower.val >= upper.val THEN none
     ELSE IF ~(lower.val <= seed.num /\ seed.num <= upper.val) THEN none
     ELSE IF (upper.val - lower.val + 1) < Abs(step.val) THEN none
     ELSE [ok |-> TRUE,
           data |-> CycleValues(seed.prefix, seed.num, step.val, lower.val,
                                upper.val, fill_count.val)]

\* _generate_fill_data: [ok, data]; ok is FALSE where the code returns None.
\* q holds the dialog's entries: tab, count, step, lower, upper (texts).
_generate_fill_data(start_value, q) ==
  LET fill_count == PyInt(q.count)
      seed == Decompose(start_value)
      step == PyInt(q.step)
      lower == PyInt(q.lower)
      upper == PyInt(q.upper)
      none == [ok |-> FALSE, data |-> <<>>]
  IN IF ~fill_count.ok THEN none
     ELSE IF fill_count.val <= 0 THEN none
     ELSE IF q.tab # "copy" /\ ~seed.ok THEN none
     ELSE IF q.tab = "copy"
          THEN [ok |-> TRUE, data |-> [k \in 1..fill_count.val |-> start_value]]
     ELSE IF q.tab = "sequence"
          THEN IF ~step.ok THEN none
               ELSE [ok |-> TRUE,
                     data |-> SequenceValues(seed.prefix, seed.num, step.val,
                                             fill_count.val)]
     ELSE IF ~step.ok \/ ~lower.ok \/ ~upper.ok THEN none
     ELSE IF lower.val >= upper.val THEN none
     ELSE IF ~(lower.val <= seed.num /\ seed.num <= upper.val) THEN none
     ELSE IF (upper.val - lower.val + 1) <= Abs(step.val) THEN none
     ELSE [ok |-> TRUE,
           data |-> CycleValues(seed.prefix, seed.num, step.val, lower.val,
                                upper.val, fill_count.val)]

\* apply_pattern_fill(direction, data): an iloc slice stops at the last row or
\* column, and a list longer than the slice raises ValueError.
apply_pattern_fill(s, active_col, direction, data) ==
  LET ci == ColIndexOf(active_col)
      i == PyInt(s.sel[1])
      start_col_name == s.tree.columns[ci.val + 1]
      start_row_pos == PosOf(s.df.index, i.val)
      start_col_pos == PosOf(s.df.columns, start_col_name)
      pushed == _add_to_undo(s, "PatternFill")
      n == Len(data)
      fits == IF direction = "column"
              THEN start_row_pos + n - 1 <= NRows(s.df)
              ELSE start_col_pos + n - 1 <= NCols(s.df)
      filled == [r \in 1..NRows(s.df) |-> [c \in 1..NCols(s.df) |->
                  IF direction = "column"
                  THEN IF c = start_col_pos /\ r >= start_row_pos
                                            /\ r < start_row_pos + n
                       THEN data[r - start_row_pos + 1] ELSE s.df.values[r][c]
                  ELSE IF r = start_row_pos /\ c >= start_col_pos
                                            /\ c < start_col_pos + n
                       THEN data[c - start_col_pos + 1] ELSE s.df.values[r][c]]]
  IN IF s.sel = <<>> \/ active_col = None THEN WithRes(s, "return")
     ELSE IF ~ci.ok \/ ci.val < 0 \/ ci.val >= Len(s.tree.columns)
          THEN WithRes(s, "return")
     ELSE IF ~i.ok THEN WithRes(s, "return")
     ELSE IF start_row_pos = 0 \/ start_col_pos = 0 THEN WithRes(s, "return")
     ELSE IF ~fits THEN WithRes(pushed, "ValueError")
     ELSE Reload(Normalize(Write(pushed, [s.df EXCEPT !.values = filled])))

\* The entries of the dialog when Apply is pressed.
FillRequests ==
  [tab : {"copy"}, count : {<<"2">>, <<"0">>, <<"x">>},
   step : {<<"1">>}, lower : {<<"1">>}, upper : {<<"1", "0">>}]
  \cup
  [tab : {"sequence"}, count : {<<"2">>, <<"0">>, <<"x">>},
   step : {<<"1">>, <<"x">>}, lower : {<<"1">>}, upper : {<<"1", "0">>}]
  \cup
  [tab : {"cycle"}, count : {<<"2">>, <<"0">>},
   step : {<<"1">>, <<"3">>, <<"x">>}, lower : {<<"0">>, <<"2">>},
   upper : {<<"2">>, <<"3">>}]

\* PatternFillDialog._apply_fill: destroy() is not reached when
\* apply_pattern_fill raises.
_apply_fill ==
  /\ Running
  /\ UNCHANGED header
  /\ UNCHANGED cell_label
  /\ dialog.open
  /\ \E q \in FillRequests, direction \in {"column", "row"} :
       LET g == _generate_fill_data(dialog.start_value, q)
           e == IF g.ok
                THEN apply_pattern_fill(Cur, active_column_id, direction, g.data)
                ELSE WithRes(Cur, "rejected")
       IN /\ Commit(e)
          /\ dialog' = IF e.res \in {"rejected", "ValueError"} THEN dialog
                       ELSE NoDialog
          /\ ObserveRequest("apply_fill", e.res, "mutation",
                            [seed |-> dialog.start_value, tab |-> q.tab,
                             count |-> q.count, step |-> q.step,
                             lower |-> q.lower, upper |-> q.upper])
  /\ UNCHANGED <<clipboard_data, file_path, ctx, menu_posted, active_column_id,
                 finder>>

\* The cells the dialog is opened on.
Seeds == {<<"3">>, <<"R", "5">>, <<"a">>, <<"-", "2">>, <<"0", "7">>, <<"n", "a", "n">>}
\* The entries of the dialog when the preview button is pressed.
PreviewRequests ==
  LET Counts == {PyStrInt(k) : k \in 0..MaxCount}
      Steps == {PyStrInt(k) : k \in (0 - MaxStep)..MaxStep} \cup {<<"x">>}
  IN [tab : {"copy", "sequence"}, count : Counts, step : Steps,
      lower : {<<"1">>}, upper : {<<"5">>}]
     \cup
     [tab : {"cycle"}, count : Counts, step : Steps,
      lower : {<<"1">>, <<"2">>, <<"7">>}, upper : {<<"3">>, <<"5">>, <<"7">>}]

\* PatternFillDialog._update_preview: the preview is emptied, then filled with
\* the generated values.
_update_preview ==
  /\ Running
  /\ dialog.open
  /\ \E q \in PreviewRequests :
       LET g == _generate_fill_data(dialog.start_value, q)
       IN /\ dialog' = [dialog EXCEPT !.preview = IF g.ok THEN g.data ELSE <<>>]
          /\ ObserveRequest("preview", IF g.ok THEN "ok" ELSE "rejected", "ui",
                            [seed |-> dialog.start_value, tab |-> q.tab,
                             count |-> q.count, step |-> q.step,
                             lower |-> q.lower, upper |-> q.upper])
  /\ UNCHANGED <<dataframe, hist, clipboard_data, file_path, ctx, menu_posted,
                 view, finder, header, cell_label>>

(***************************************************************************)
(* The program: any callback, one at a time.                                *)
(***************************************************************************)
Next ==
  \/ new_file
  \/ open_file
  \/ _show_context_menu
  \/ _on_cell_click
  \/ _copy_cell
  \/ _cut_cell
  \/ _paste_cell
  \/ _delete_row
  \/ _insert_row
  \/ _delete_column
  \/ _insert_column
  \/ apply_extend
  \/ _update_cell_from_input
  \/ _edit_cell_popup
  \/ FindNext
  \/ replace_cell
  \/ replace_all
  \/ open_pattern_fill_dialog
  \/ _apply_fill
  \/ find_next_header
  \/ save_file
  \/ save_file_as
  \/ undo_action
  \/ redo_action

Init == Constructed /\ limit = MaxSteps

Spec == Init /\ [][Next]_vars

(***************************************************************************)
(* The history alone: files, Extend Table, undo and redo, for longer runs.  *)
(***************************************************************************)
InitHistory == Constructed /\ limit = MaxDeepSteps

NextHistory ==
  \/ open_file
  \/ apply_extend
  \/ undo_action
  \/ redo_action

SpecHistory == InitHistory /\ [][NextHistory]_vars

(***************************************************************************)
(* The two dialogs alone: a file, a click on a cell, the Pattern Fill       *)
(* dialog and its Apply button, Extend Table, and undo.                     *)
(***************************************************************************)
InitFill == Constructed /\ limit = MaxFillSteps

NextFill ==
  \/ open_file
  \/ _on_cell_click
  \/ open_pattern_fill_dialog
  \/ _apply_fill
  \/ apply_extend
  \/ undo_action

SpecFill == InitFill /\ [][NextFill]_vars

(***************************************************************************)
(* The structure of the table alone: New, Open, the context menu with its   *)
(* row and column commands, Extend Table, undo and redo.                    *)
(***************************************************************************)
InitStructure == Constructed /\ limit = MaxStructSteps

NextStructure ==
  \/ new_file
  \/ open_file
  \/ _show_context_menu
  \/ _insert_row
  \/ _delete_row
  \/ _insert_column
  \/ _delete_column
  \/ apply_extend
  \/ undo_action
  \/ redo_action

SpecStructure == InitStructure /\ [][NextStructure]_vars

(***************************************************************************)
(* The edits made in place: a file, the selection, the cell entry, Copy and *)
(* Paste, Delete Column, Pattern Fill, undo and redo.                       *)
(***************************************************************************)
InitEdit == Constructed /\ limit = MaxEditSteps

NextEdit ==
  \/ open_file
  \/ _show_context_menu
  \/ _update_cell_from_input
  \/ _copy_cell
  \/ _paste_cell
  \/ _delete_column
  \/ open_pattern_fill_dialog
  \/ _apply_fill
  \/ undo_action
  \/ redo_action

SpecEdit == InitEdit /\ [][NextEdit]_vars

(***************************************************************************)
(* Searching and saving: New, Open, the context menu and Copy, the cell     *)
(* entry, Find Next, Find Header, Save and undo.                            *)
(***************************************************************************)
InitFind == Constructed /\ limit = MaxFindSteps

NextFind ==
  \/ new_file
  \/ open_file
  \/ _show_context_menu
  \/ _copy_cell
  \/ _update_cell_from_input
  \/ FindNext
  \/ find_next_header
  \/ save_file
  \/ save_file_as
  \/ undo_action

SpecFind == InitFind /\ [][NextFind]_vars

(***************************************************************************)
(* Find and replace: New, Open, the context menu with Copy and Paste, Find  *)
(* Next, Replace, Replace All and undo.                                     *)
(***************************************************************************)
InitSearch == Constructed /\ limit = MaxSearchSteps

NextSearch ==
  \/ new_file
  \/ open_file
  \/ _show_context_menu
  \/ _copy_cell
  \/ _paste_cell
  \/ FindNext
  \/ replace_cell
  \/ replace_all
  \/ undo_action

SpecSearch == InitSearch /\ [][NextSearch]_vars

(***************************************************************************)
(* Searching a table that Copy and Paste changed: New, Open, the context    *)
(* menu, Copy, Paste and Find Next.                                         *)
(***************************************************************************)
InitWrap == Constructed /\ limit = MaxWrapSteps

NextWrap ==
  \/ new_file
  \/ open_file
  \/ _show_context_menu
  \/ _copy_cell
  \/ _paste_cell
  \/ FindNext

SpecWrap == InitWrap /\ [][NextWrap]_vars

(***************************************************************************)
(* The clipboard: New, Open, the context menu with Copy, Cut and Paste, the *)
(* cell entry, undo and redo.                                               *)
(***************************************************************************)
InitClip == Constructed /\ limit = MaxClipSteps

NextClip ==
  \/ new_file
  \/ open_file
  \/ _show_context_menu
  \/ _copy_cell
  \/ _cut_cell
  \/ _paste_cell
  \/ _update_cell_from_input
  \/ undo_action
  \/ redo_action

SpecClip == InitClip /\ [][NextClip]_vars

(***************************************************************************)
(* The generator alone: the Pattern Fill dialog is open on the cell of a    *)
(* one-cell table that holds the seed, and the preview button is pressed.   *)
(***************************************************************************)
InitPreview ==
  \E seed \in Seeds :
    /\ dataframe = Frame(<<0>>, <<<<"A">>>>, <<<<seed>>>>)
    /\ undo_stack = <<>>
    /\ redo_stack = <<>>
    /\ undo_objs = <<>>
    /\ redo_objs = <<>>
    /\ clipboard_data = None
    /\ file_path = <<"t">>
    /\ context_menu_row_id = Unset
    /\ context_menu_col_id = Unset
    /\ menu_posted = FALSE
    /\ tree = _load_data_to_treeview(dataframe)
    /\ selection = <<<<"0">>>>
    /\ active_column_id = ColId(1)
    /\ last_find_coords = <<-1, -1>>
    /\ find_var = <<>>
    /\ replace_var = <<>>
    /\ last_header_find_index = -1
    /\ last_header_search_term = <<>>
    /\ last_header_search_type = <<>>
    /\ cell_label = TRUE
    /\ dialog = OpenDialogResult(dataframe, tree, selection, active_column_id)
    /\ op = [name |-> "open_fill_dialog", res |-> "ok", req |-> NoRequest,
             said |-> 0]
    /\ steps = 0
    /\ limit = MaxPreviewSteps
    /\ rt = RtIdle
    /\ mark = MarkNone

NextPreview == _update_preview

SpecPreview == InitPreview /\ [][NextPreview]_vars

(***************************************************************************)
(* C1.  After n operations that changed the table, n undos and then n redos *)
(* give back the table as it was after the last of the operations.          *)
(***************************************************************************)
C1_UndoRedoRoundTrip ==
  (rt.u >= 1 /\ rt.r = rt.u) => dataframe = rt.ref

(***************************************************************************)
(* The operations of the claims, named as the callbacks record them in op.  *)
(***************************************************************************)
MutationOps == {"update_cell", "edit_cell", "cut", "paste", "insert_row",
                "delete_row", "insert_column", "delete_column", "apply_fill",
                "extend", "replace_cell", "replace_all"}

\* The step is one of the mutating operations and the table is another one
\* after it.
TableChanged == op'.name \in MutationOps /\ dataframe' # dataframe

\* A row token names a live row when it reads as an integer that labels a row.
RowIsLive(token, df) ==
  LET i == PyInt(token) IN i.ok /\ HasRow(df, i.val)

(***************************************************************************)
(* C2.  Every operation that changes the table leaves the redo stack empty, *)
(* after undos and on a table without rows or columns too.                  *)
(***************************************************************************)
C2_MutationClearsRedo ==
  [][TableChanged => redo_stack' = <<>>]_vars

(***************************************************************************)
(* C3.  Every operation that changes the table pushes exactly one entry,    *)
(* and the entry holds the table as it was before the operation (so one     *)
(* undo gives that table back); also Extend Table and Insert Column on an   *)
(* empty table.                                                             *)
(***************************************************************************)
C3_MutationPushesPriorTable ==
  [][TableChanged =>
       /\ Len(undo_stack') = Len(undo_stack) + 1
       /\ Pop(undo_stack') = undo_stack
       /\ Top(undo_stack').df = dataframe
       /\ UndoResult([Cur EXCEPT !.df = dataframe', !.undo = undo_stack',
                                 !.redo = redo_stack', !.uobj = undo_objs',
                                 !.robj = redo_objs']).df = dataframe]_vars

(***************************************************************************)
(* C4.  Undo followed at once by redo gives back the table, the undo stack  *)
(* and the redo stack (entries with their labels) of before the undo; undo  *)
(* with an empty undo stack and redo with an empty redo stack change        *)
(* nothing.                                                                 *)
(***************************************************************************)
C4_UndoThenRedoRestores ==
  mark.tag \in {"redone", "undone_empty", "redo_empty"} =>
    /\ dataframe = mark.df
    /\ undo_stack = mark.undo
    /\ redo_stack = mark.redo

\* An undo and its redo with two entries on the undo stack and a table that the
\* undo had changed.
C4_Witness ==
  /\ mark.tag = "redone"
  /\ op.name = "redo"
  /\ Len(undo_stack) >= 2
  /\ Top(undo_stack).df # dataframe

(***************************************************************************)
(* C5.  Delete Row with a row id that is no row of the table leaves the     *)
(* table, the undo stack and the redo stack as they were.                   *)
(***************************************************************************)
C5_DeleteRowStaleIdUnchanged ==
  [][(op'.name = "delete_row" /\ ~RowIsLive(context_menu_row_id, dataframe))
       => UNCHANGED <<dataframe, undo_stack, redo_stack>>]_vars

(***************************************************************************)
(* C6.  Edit Cell, Cut and Paste with a row token that names no live row    *)
(* fail: the table keeps its rows, columns and values, and both stacks are  *)
(* unchanged.  The token is the context-menu row for Cut and Paste, the     *)
(* selected item for the cell entry, the clicked item for the edit dialog.  *)
(***************************************************************************)
C6_StaleRowTokenUnchanged ==
  [][(\/ /\ op'.name \in {"cut", "paste"}
         /\ ~RowIsLive(context_menu_row_id, dataframe)
      \/ /\ op'.name = "update_cell"
         /\ selection # <<>>
         /\ ~RowIsLive(selection[1], dataframe)
      \/ /\ op'.name = "edit_cell"
         /\ selection' # <<>>
         /\ ~RowIsLive(selection'[1], dataframe))
       => UNCHANGED <<dataframe, undo_stack, redo_stack>>]_vars

(***************************************************************************)
(* C7.  A Load that fails leaves the table, the undo stack and the redo     *)
(* stack as they were before it.                                            *)
(***************************************************************************)
C7_FailedLoadUnchanged ==
  [][(op'.name = "open" /\ op'.res = "failed")
       => UNCHANGED <<dataframe, undo_stack, redo_stack>>]_vars

(***************************************************************************)
(* C8.  A Pattern Fill or Extend Table request that validation rejects      *)
(* (count <= 0 or no integer; arithmetic or cyclic mode with a seed without *)
(* integer part; cyclic mode with lower >= upper, the seed number outside   *)
(* [lower, upper], or upper - lower + 1 <= |step|) writes no cell and       *)
(* leaves the table, the undo stack and the redo stack unchanged.           *)
(***************************************************************************)
RejectedByValidation(q) ==
  LET count == PyInt(q.count)
      seed == Decompose(q.seed)
      step == PyInt(q.step)
      lower == PyInt(q.lower)
      upper == PyInt(q.upper)
      bounded == q.tab = "cycle" /\ lower.ok /\ upper.ok
  IN \/ ~count.ok
     \/ count.ok /\ count.val <= 0
     \/ q.tab \in {"sequence", "cycle"} /\ ~seed.ok
     \/ bounded /\ lower.val >= upper.val
     \/ bounded /\ seed.ok /\ (seed.num < lower.val \/ seed.num > upper.val)
     \/ bounded /\ step.ok /\ upper.val - lower.val + 1 <= Abs(step.val)

C8_RejectedRequestWritesNothing ==
  [][(op'.name \in {"apply_fill", "extend"} /\ RejectedByValidation(op'.req))
       => UNCHANGED <<dataframe, undo_stack, redo_stack, tree>>]_vars

\* A cyclic request on a table with rows whose only fault is a span of bounds
\* equal to the magnitude of the step, after an accepted count and seed.
C8_Witness ==
  /\ op.name = "apply_fill"
  /\ op.res = "rejected"
  /\ op.req.tab = "cycle"
  /\ op.req.seed = <<"a", "1">>
  /\ op.req.count = <<"2">>
  /\ op.req.step = <<"3">>
  /\ op.req.lower = <<"0">>
  /\ op.req.upper = <<"2">>
  /\ NRows(dataframe) >= 2

(***************************************************************************)
(* C9.  Replace All that changes no cell (no cell contains the term, or the *)
(* replacement equals the term) leaves the table, the undo stack and the    *)
(* redo stack unchanged; a redo stack that was not empty stays so.          *)
(***************************************************************************)
NoCellContains(df, term) ==
  \A i \in 1..NRows(df), j \in 1..NCols(df) :
     ~Contains(PyStr(df.values[i][j]), term)

C9_ReplaceAllNoChangeUnchanged ==
  [][(/\ op'.name = "replace_all"
      /\ NoCellContains(dataframe, find_var') \/ replace_var' = find_var')
       => UNCHANGED <<dataframe, undo_stack, redo_stack>>]_vars

(***************************************************************************)
(* C10.  Replace Current changes the table and pushes an entry only if the  *)
(* cell at the coordinate Find Next last reported still contains the search *)
(* term; otherwise it only searches again and leaves the table and both     *)
(* stacks unchanged.                                                        *)
(***************************************************************************)
LastFoundCellContains(df, coords, term) ==
  /\ coords[1] >= 0 /\ coords[1] < NRows(df)
  /\ coords[2] >= 0 /\ coords[2] < NCols(df)
  /\ Contains(PyStr(df.values[coords[1] + 1][coords[2] + 1]), term)

C10_ReplaceCurrentOnlyOnMatch ==
  [][(/\ op'.name = "replace_cell"
      /\ ~LastFoundCellContains(dataframe, last_find_coords, find_var'))
       => UNCHANGED <<dataframe, undo_stack, redo_stack>>]_vars

(***************************************************************************)
(* C11.  After every structural mutation (insert or delete row, insert or   *)
(* delete column, extend) that leaves a table with cells, the row ids are   *)
(* 0..N-1 in order, the column names are the first M names A, B, ... in     *)
(* order, and the cells that were there before keep their values and their  *)
(* positions relative to each other.                                        *)
(***************************************************************************)
StructuralOps == {"insert_row", "delete_row", "insert_column", "delete_column",
                  "extend"}

\* The strictly increasing maps of 1..n into 1..m.
Increasing(n, m) ==
  {f \in [1..n -> 1..m] : \A i, k \in 1..n : i < k => f[i] < f[k]}

\* The cells of the frame a are cells of the frame b, in the same order of
\* rows and of columns.
SubGrid(a, b) ==
  \/ IsEmpty(a)
  \/ \E f \in Increasing(NRows(a), NRows(b)), g \in Increasing(NCols(a), NCols(b)) :
       \A i \in 1..NRows(a), j \in 1..NCols(a) :
          b.values[f[i]][g[j]] = a.values[i][j]

CanonicalHeaders(df) ==
  /\ \A i \in 1..NRows(df) : df.index[i] = i - 1
  /\ NCols(df) <= 26
  /\ \A j \in 1..NCols(df) : df.columns[j] = <<Letters[j]>>

C11_StructuralMutationNormalizes ==
  [][(op'.name \in StructuralOps /\ op'.res = "ok" /\ ~IsEmpty(dataframe'))
       => /\ CanonicalHeaders(dataframe')
          /\ IF op'.name \in {"delete_row", "delete_column"}
             THEN SubGrid(dataframe', dataframe)
             ELSE SubGrid(dataframe, dataframe')]_vars

\* The first of two rows with different cells was deleted: the row that is
\* left is row 0.
C11_Witness ==
  /\ op.name = "delete_row"
  /\ op.res = "ok"
  /\ dataframe = Frame(<<0>>, <<<<"A">>>>, <<<<<<"a", "1">>>>>>)

(***************************************************************************)
(* C12.  No table kept in the undo stack or in the redo stack shares state  *)
(* with the live table: no entry is the live DataFrame object, and an edit  *)
(* of the live table in place (cell edit, cut, paste, replace, pattern      *)
(* fill, delete or insert column, extend) changes no table of an entry:     *)
(* the entries that stay are as they were and the entry the edit pushed     *)
(* holds the table of before the edit.                                      *)
(***************************************************************************)
InPlaceOps == {"update_cell", "edit_cell", "cut", "paste", "replace_cell",
               "apply_fill", "delete_column", "insert_column", "extend"}

NoEntryIsLive(uobj, robj) ==
  /\ \A k \in 1..Len(uobj) : uobj[k] # 0
  /\ \A k \in 1..Len(robj) : robj[k] # 0

C12_SnapshotsNotAliased ==
  [][/\ NoEntryIsLive(undo_objs', redo_objs')
     /\ op'.name \in InPlaceOps =>
          /\ \A k \in 1..Len(undo_stack) :
               k <= Len(undo_stack') => undo_stack'[k] = undo_stack[k]
          /\ Len(undo_stack') > Len(undo_stack) => Top(undo_stack').df = dataframe
          /\ \A k \in 1..Len(redo_stack') :
               k <= Len(redo_stack) /\ redo_stack'[k] = redo_stack[k]]_vars

\* A paste changed a cell of a table that an undo had brought back, with the
\* entry of an earlier edit still on the undo stack.
C12_Witness ==
  /\ op.name = "paste"
  /\ op.res = "ok"
  /\ Len(undo_stack) >= 2
  /\ Top(undo_stack).df # dataframe
  /\ undo_stack[1].df # Top(undo_stack).df

(***************************************************************************)
(* C13.  Copy, Find Next, Find Header and Save (whether the file is written *)
(* or not) never change the live table, the undo stack or the redo stack.   *)
(***************************************************************************)
C13_NonMutatingOpsKeepState ==
  [][op'.name \in {"copy", "find_next", "find_header", "save", "save_as"}
       => UNCHANGED <<dataframe, undo_stack, redo_stack>>]_vars

\* A table of empty cells, with an entry on the redo stack, was saved.
C13_Witness ==
  /\ op.name \in {"save", "save_as"}
  /\ op.res = "saved"
  /\ redo_stack # <<>>
  /\ \E i \in 1..NRows(dataframe), j \in 1..NCols(dataframe) :
       dataframe.values[i][j] = <<>>

(***************************************************************************)
(* C14.  After New and after a Load that succeeds both stacks are empty,    *)
(* whatever history existed, and an undo or redo that comes next changes    *)
(* neither the table nor the stacks.                                        *)
(***************************************************************************)
C14_NewAndLoadClearHistory ==
  [][/\ (op'.name \in {"new", "open"} /\ op'.res = "ok")
          => undo_stack' = <<>> /\ redo_stack' = <<>>
     /\ (op.name \in {"new", "open"} /\ op.res = "ok"
         /\ op'.name \in {"undo", "redo"})
          => /\ op'.res = "return"
             /\ UNCHANGED <<dataframe, undo_stack, redo_stack, tree>>]_vars

\* A redo that found nothing to do on the table New makes, late in a run.
C14_Witness ==
  /\ op.name = "redo"
  /\ op.res = "return"
  /\ undo_stack = <<>>
  /\ redo_stack = <<>>
  /\ file_path = None
  /\ dataframe = _normalize_headers(RangeFrame(Full(2, 2, <<>>), 2))
  /\ steps >= 4

(***************************************************************************)
(* C15.  A Pattern Fill that passes validation writes all its values into   *)
(* consecutive cells from the anchor along the direction, on a table that   *)
(* grows when the run passes the last row or column: it never fails for a   *)
(* table that is too small and never writes fewer cells than values.        *)
(***************************************************************************)
C15_PatternFillWritesAllValues ==
  [][(op'.name = "apply_fill" /\ op'.res \in {"ok", "ValueError"})
       => LET data == _generate_fill_data(op'.req.seed, op'.req).data
              r0 == PosOf(dataframe.index, PyInt(selection[1]).val)
              c0 == ColIndexOf(active_column_id).val + 1
          IN /\ op'.res = "ok"
             /\ \/ /\ NRows(dataframe') >= r0 + Len(data) - 1
                   /\ \A k \in 1..Len(data) :
                        dataframe'.values[r0 + k - 1][c0] = data[k]
                \/ /\ NCols(dataframe') >= c0 + Len(data) - 1
                   /\ \A k \in 1..Len(data) :
                        dataframe'.values[r0][c0 + k - 1] = data[k]]_vars

(***************************************************************************)
(* C16.  Extend Table by count on a table of R rows and C columns gives     *)
(* R + count rows and C columns downwards, R rows and C + count columns to  *)
(* the right; the cells there were keep their value and position and the    *)
(* new cells are empty strings, for every R >= 0 and C >= 0.                *)
(***************************************************************************)
C16_ExtendShape ==
  [][(op'.name = "extend" /\ op'.res = "ok")
       => LET count == PyInt(op'.req.count).val
              R == NRows(dataframe)
              C == NCols(dataframe)
              RR == IF op'.req.tab = "down" THEN R + count ELSE R
              CC == IF op'.req.tab = "down" THEN C ELSE C + count
          IN /\ NRows(dataframe') = RR
             /\ NCols(dataframe') = CC
             /\ \A i \in 1..NRows(dataframe'), j \in 1..NCols(dataframe') :
                  dataframe'.values[i][j] =
                    IF i <= R /\ j <= C THEN dataframe.values[i][j] ELSE <<>>]_vars

(***************************************************************************)
(* C17.  Insert Row adds exactly one row of empty strings, at the position  *)
(* of the target row (above) or directly after it (below); the other rows   *)
(* keep their content and order and the number of columns does not change,  *)
(* also when the table has no rows.                                         *)
(***************************************************************************)
C17_InsertRowAddsOneBlankRow ==
  [][op'.name = "insert_row"
       => LET R == NRows(dataframe)
              target == PyInt(context_menu_row_id)
              t == IF target.ok THEN PosOf(dataframe.index, target.val) ELSE 0
          IN /\ NCols(dataframe') = NCols(dataframe)
             /\ NRows(dataframe') = R + 1
             /\ \E p \in 1..(R + 1) :
                  /\ t # 0 => p \in {t, t + 1}
                  /\ \A j \in 1..NCols(dataframe') : dataframe'.values[p][j] = <<>>
                  /\ \A i \in 1..R :
                       dataframe'.values[IF i < p THEN i ELSE i + 1]
                         = dataframe.values[i]]_vars

(***************************************************************************)
(* C18.  Replace All with a term that is not empty sets every cell to the   *)
(* string it held with every occurrence of the term replaced, and the count *)
(* it reports is the number of cells whose string changed, not the number   *)
(* of occurrences.                                                          *)
(***************************************************************************)
C18_ReplaceAllEveryOccurrence ==
  [][(op'.name = "replace_all" /\ find_var' # <<>>)
       => /\ NRows(dataframe') = NRows(dataframe)
          /\ NCols(dataframe') = NCols(dataframe)
          /\ \A i \in 1..NRows(dataframe), j \in 1..NCols(dataframe) :
               PyStr(dataframe'.values[i][j])
                 = StrReplace(PyStr(dataframe.values[i][j]), find_var', replace_var')
          /\ op'.res = "replaced"
               => op'.said = Cardinality(
                    {c \in (1..NRows(dataframe)) \X (1..NCols(dataframe)) :
                       PyStr(dataframe'.values[c[1]][c[2]])
                         # PyStr(dataframe.values[c[1]][c[2]])})]_vars

\* Two occurrences in one cell were replaced and counted once: three
\* occurrences in two cells.
C18_Witness ==
  /\ op.name = "replace_all"
  /\ op.res = "replaced"
  /\ op.said = 2
  /\ find_var = <<"a">>
  /\ undo_stack # <<>>
  /\ Top(undo_stack).df.values = <<<<<<"a">>>>, <<<<"a", "a">>>>>>

(***************************************************************************)
(* C19.  Find Next reports the first cell in row-major order strictly after *)
(* the last reported match (from the first cell when there is no last match *)
(* or after a confirmed wrap) whose text contains the term, and records     *)
(* that cell as the new last match.                                         *)
(***************************************************************************)
NoCell == <<-1, -1>>

\* The first cell after last, in row-major order, whose text contains term.
FirstHitAfter(df, term, last) ==
  LET hits == {c \in (0..(NRows(df) - 1)) \X (0..(NCols(df) - 1)) :
                 /\ c[1] > last[1] \/ (c[1] = last[1] /\ c[2] > last[2])
                 /\ Contains(PyStr(df.values[c[1] + 1][c[2] + 1]), term)}
  IN IF hits = {} THEN NoCell
     ELSE CHOOSE c \in hits :
            \A d \in hits : c[1] < d[1] \/ (c[1] = d[1] /\ c[2] <= d[2])

C19_FindNextReportsNextMatch ==
  [][(op'.name = "find_next" /\ find_var' # <<>>)
       => LET direct == FirstHitAfter(dataframe, find_var', last_find_coords)
              expected == IF direct # NoCell THEN direct
                          ELSE IF op'.said = 1 /\ op'.res # "no_wrap"
                               THEN FirstHitAfter(dataframe, find_var', NoCell)
                               ELSE NoCell
          IN /\ expected # NoCell
               => /\ op'.res = "found"
                  /\ last_find_coords' = expected
                  /\ selection' = <<PyStrInt(dataframe.index[expected[1] + 1])>>
             /\ op'.res = "found" => expected # NoCell]_vars

(***************************************************************************)
(* C20.  Every Find Next ends after asking for the wrap at most once; it    *)
(* reports that nothing was found only when no cell of the table contains   *)
(* the term, and when some cell contains the term and the wrap is confirmed *)
(* it reports a match.                                                      *)
(***************************************************************************)
SomeCellContains(df, term) == FirstHitAfter(df, term, NoCell) # NoCell

C20_FindNextWrapsOnce ==
  (op.name = "find_next" /\ find_var # <<>>)
    => /\ op.said <= 1
       /\ op.res = "not_found" => ~SomeCellContains(dataframe, find_var)
       /\ (SomeCellContains(dataframe, find_var) /\ op.said = 1
           /\ op.res # "no_wrap") => op.res = "found"

(***************************************************************************)
(* C21.  The clipboard is written only by Copy and Cut: Paste leaves in it  *)
(* the value it read, and undo, redo, New, Open and every other callback    *)
(* leave it unchanged.                                                      *)
(***************************************************************************)
C21_ClipboardWrittenByCopyAndCut ==
  [][clipboard_data' # clipboard_data => op'.name \in {"copy", "cut"}]_vars

\* A paste wrote the clipboard's value into the table and the value is still
\* in the clipboard.
C21_Witness ==
  /\ op.name = "paste"
  /\ op.res = "ok"
  /\ clipboard_data = <<"a", "1">>
  /\ undo_stack # <<>>
  /\ Top(undo_stack).df # dataframe

(***************************************************************************)
(* C22.  Cut on a cell of the table leaves the cell's previous value in the *)
(* clipboard, sets that cell to the empty string, changes no other cell and *)
(* pushes exactly one undo entry whose snapshot holds the previous value;   *)
(* Paste with an empty clipboard changes neither the table nor the stacks.  *)
(***************************************************************************)
C22_CutAndEmptyPaste ==
  [][LET g == _get_context_cell(dataframe, context_menu_row_id,
                                context_menu_col_id)
         i == PyInt(g.row_id)
         live == g.ok /\ i.ok /\ HasRow(dataframe, i.val)
         r == PosOf(dataframe.index, i.val)
         c == PosOf(dataframe.columns, g.col_name)
     IN /\ (op'.name = "cut" /\ live)
             => /\ clipboard_data' = dataframe.values[r][c]
                /\ dataframe'.index = dataframe.index
                /\ dataframe'.columns = dataframe.columns
                /\ \A k \in 1..NRows(dataframe), j \in 1..NCols(dataframe) :
                     dataframe'.values[k][j] =
                       IF k = r /\ j = c THEN <<>> ELSE dataframe.values[k][j]
                /\ Len(undo_stack') = Len(undo_stack) + 1
                /\ Pop(undo_stack') = undo_stack
                /\ Top(undo_stack').df = dataframe
        /\ (op'.name = "paste" /\ clipboard_data = None)
             => UNCHANGED <<dataframe, undo_stack, redo_stack>>]_vars

\* A cut emptied the cell that held "a1"; the snapshot still holds it.
C22_Witness ==
  /\ op.name = "cut"
  /\ op.res = "ok"
  /\ clipboard_data = <<"a", "1">>
  /\ dataframe.values = <<<<<<"a">>>>, <<<<>>>>>>
  /\ Top(undo_stack).df.values = <<<<<<"a">>>>, <<<<"a", "1">>>>>>

(***************************************************************************)
(* C23.  In the cyclic tab, for a request with lower < upper,               *)
(* lower <= number <= upper, upper - lower + 1 > |step| and count > 0, the  *)
(* i-th value is prefix + str(lower + ((number - lower + i*step) mod        *)
(* (upper - lower + 1))) for i in 0..count-1, for positive, zero and        *)
(* negative steps, so every numeric part lies in [lower, upper].            *)
(***************************************************************************)
C23_CyclicClosedForm ==
  LET q == op.req
      seed == Decompose(q.seed)
      count == PyInt(q.count)
      step == PyInt(q.step)
      lower == PyInt(q.lower)
      upper == PyInt(q.upper)
      span == upper.val - lower.val + 1
  IN (/\ op.name = "preview" /\ q.tab = "cycle"
      /\ seed.ok /\ count.ok /\ step.ok /\ lower.ok /\ upper.ok
      /\ lower.val < upper.val
      /\ lower.val <= seed.num /\ seed.num <= upper.val
      /\ span > Abs(step.val)
      /\ count.val > 0)
       => /\ op.res = "ok"
          /\ Len(dialog.preview) = count.val
          /\ \A i \in 0..(count.val - 1) :
               LET n == lower.val + ((seed.num - lower.val + i * step.val) % span)
               IN /\ dialog.preview[i + 1] = seed.prefix \o PyStrInt(n)
                  /\ lower.val <= n /\ n <= upper.val

\* A negative step wrapped below the lower bound: R5, R3, R1, R4 in [1, 5]
\* (and 3, 5, 2, 4 for the step 2).
C23_Witness ==
  /\ op.name = "preview"
  /\ op.req.tab = "cycle"
  /\ op.req.step = <<"-", "2">>
  /\ dialog.preview = <<<<"R", "5">>, <<"R", "3">>, <<"R", "1">>, <<"R", "4">>>>

(***************************************************************************)
(* C24.  In the sequence tab, for a seed that decomposes into a prefix and  *)
(* a number and a count > 0, the generator gives exactly count values and   *)
(* the i-th value is prefix + str(number + i*step) for i in 0..count-1.     *)
(***************************************************************************)
C24_SequenceClosedForm ==
  LET q == op.req
      seed == Decompose(q.seed)
      count == PyInt(q.count)
      step == PyInt(q.step)
  IN (/\ op.name = "preview" /\ q.tab = "sequence"
      /\ seed.ok /\ count.ok /\ step.ok
      /\ count.val > 0)
       => /\ op.res = "ok"
          /\ Len(dialog.preview) = count.val
          /\ \A i \in 0..(count.val - 1) :
               dialog.preview[i + 1]
                 = seed.prefix \o PyStrInt(seed.num + i * step.val)

\* R5 with step 2 gave R5, R7, R9.
C24_Witness ==
  /\ op.name = "preview"
  /\ op.req.tab = "sequence"
  /\ op.req.step = <<"2">>
  /\ dialog.preview = <<<<"R", "5">>, <<"R", "7">>, <<"R", "9">>>>

(***************************************************************************)
(* C25.  After every callback the grid shows the rows and the cell values   *)
(* of the live table: the identifiers of the grid's rows are the row labels *)
(* of the table, and the values of each grid row are those of the table's   *)
(* row, whatever edits, structural changes, pastes, undos, redos and loads  *)
(* came before.                                                             *)
(***************************************************************************)
C25_GridShowsTable ==
  /\ {tree.rows[k].iid : k \in 1..Len(tree.rows)}
       = {PyStrInt(dataframe.index[i]) : i \in 1..NRows(dataframe)}
  /\ \A i \in 1..NRows(dataframe), k \in 1..Len(tree.rows) :
       tree.rows[k].iid = PyStrInt(dataframe.index[i])
         => tree.rows[k].values
              = [j \in 1..NCols(dataframe) |-> PyStr(dataframe.values[i][j])]

(***************************************************************************)
(* C26.  Find Header reports that nothing was found only when no header of  *)
(* the chosen scope matches the term: when the only matching headers are at *)
(* or before the cursor it asks to wrap, and when the wrap is confirmed it  *)
(* reports the first matching header.                                       *)
(***************************************************************************)
\* The 0-based positions of the headers of the scope that match the term.
MatchingHeaders(df, term, search_type, fuzzy) ==
  LET headers == IF search_type = "column" THEN df.columns
                 ELSE [k \in 1..NRows(df) |-> PyStrInt(df.index[k])]
  IN {i \in 0..(Len(headers) - 1) : HeaderMatches(term, headers[i + 1], fuzzy)}

C26_HeaderNotFoundOnlyWithoutMatch ==
  [][op'.name = "find_header"
       => LET matches == MatchingHeaders(dataframe, last_header_search_term',
                                         last_header_search_type',
                                         op'.req.tab = "fuzzy")
          IN /\ op'.res = "not_found" => matches = {}
             /\ (matches # {} /\ op'.said = 1 /\ op'.res = "found")
                  => \A i \in matches : last_header_find_index' <= i]_vars

(***************************************************************************)
(* C27.  Find Header searches from the first header whenever the term or    *)
(* the scope differs from those of the invocation before, and otherwise     *)
(* from the header after the last match (from the first again after a       *)
(* confirmed wrap): the cursor of a search with another term or scope is    *)
(* never used.                                                              *)
(***************************************************************************)
C27_HeaderCursorKeyedByTermAndScope ==
  [][op'.name = "find_header"
       => LET matches == MatchingHeaders(dataframe, last_header_search_term',
                                         last_header_search_type',
                                         op'.req.tab = "fuzzy")
              same == /\ last_header_search_term' = last_header_search_term
                      /\ last_header_search_type' = last_header_search_type
              next == IF same THEN last_header_find_index + 1 ELSE 0
              length == IF last_header_search_type' = "column"
                        THEN NCols(dataframe) ELSE NRows(dataframe)
              past == next >= length
              ahead == {i \in matches : past \/ i >= next}
          IN /\ op'.said = IF past THEN 1 ELSE 0
             /\ op'.res = "return" => past
             /\ op'.res # "return"
                  => IF ahead = {}
                     THEN op'.res = "not_found" /\ last_header_find_index' = -1
                     ELSE /\ op'.res \in {"found", "TclError"}
                          /\ last_header_find_index' \in ahead
                          /\ \A i \in ahead : last_header_find_index' <= i]_vars

\* A search of the columns for a term that had just matched the last row:
\* no question was asked and nothing was found.
C27_Witness ==
  /\ op.name = "find_header"
  /\ op.res = "not_found"
  /\ op.said = 0
  /\ last_header_search_type = "column"
  /\ last_header_search_term = <<"1">>
  /\ NCols(dataframe) = 2
  /\ NRows(dataframe) = 2
  /\ selection = <<<<"1">>>>

(***************************************************************************)
(* C28.  Committing the cell entry (Return or focus-out) with the value the *)
(* selected cell already holds pushes no history entry and does not clear   *)
(* the redo stack, as the edit dialog does when the new value equals the    *)
(* old one.                                                                 *)
(***************************************************************************)
C28_UnchangedEntryKeepsHistory ==
  [][(op'.name = "update_cell" /\ op'.res = "ok" /\ dataframe' = dataframe)
       => UNCHANGED <<undo_stack, redo_stack>>]_vars

(***************************************************************************)
(* C29.  The stored save path changes only on New (to none), on a           *)
(* successful Load and on a successful Save As (a Save without a stored     *)
(* path is a Save As); a failed Load leaves it unchanged, so a Save writes  *)
(* to the file the document was last loaded from or saved to.               *)
(***************************************************************************)
C29_SavePathChangesOnSuccessOnly ==
  [][file_path' # file_path
       => \/ op'.name = "new" /\ file_path' = None
          \/ op'.name = "open" /\ op'.res = "ok"
          \/ op'.name = "save_as" /\ op'.res = "saved"
          \/ op'.name = "save" /\ op'.res = "saved" /\ file_path = None]_vars

(***************************************************************************)
(* C30.  Pattern Fill writes its first value into the start cell of the     *)
(* fill dialog, the cell the seed was read from, also when the selection of *)
(* the main window changed while the dialog was open.                       *)
(***************************************************************************)
C30_FillStartsAtDialogCell ==
  [][(/\ op'.name = "apply_fill"
      /\ op'.res = "ok"
      /\ HasRow(dataframe, dialog.start_index)
      /\ HasCol(dataframe, dialog.start_column))
       => LET g == _generate_fill_data(dialog.start_value, op'.req)
              r == PosOf(dataframe.index, dialog.start_index)
              c == PosOf(dataframe.columns, dialog.start_column)
          IN dataframe'.values[r][c] = g.data[1]]_vars

====
